---- MODULE Spec2Model ----
(***************************************************************************)
(* Model of the tagcode libraries: the bit extraction engine (package      *)
(* bitextract, with its BitExploder and BitReader), the SGTIN codec with   *)
(* its ASCII7 packer (package epc) and the tag URI Decoder (package        *)
(* bittag).                                                                *)
(*                                                                         *)
(* Byte slices are sequences of 0..255 (1-indexed: Go's s[i] is s[i+1]),   *)
(* strings are sequences of byte values.  A Go int that can exceed 31 bits *)
(* (company prefix, SGTIN-96 serial) is kept as a decimal number, see the  *)
(* section "wide integers".                                                *)
(***************************************************************************)
EXTENDS Integers, Sequences, FiniteSets, TLC

VARIABLES
    xStart, xLen, xSrc,   \* arguments of New(start, len) and Extract(src)
    xBE,                  \* the BitExtractor
    xDest,                \* outcome of the last Extract
    xPc,                  \* position of the extractor scenario
    dA, dB,               \* two tag buffers handed to DecodeSGTIN
    rA, rB,               \* what DecodeSGTIN returned for them
    dText,                \* URI() and GTIN() of the two decoded SGTINs
    sArgs,                \* arguments of NewSGTIN
    sNew,                 \* what NewSGTIN returned: the SGTIN and ValidateRanges' result
    sCan,                 \* result of CanSGTIN96 on that SGTIN
    sOut,                 \* checkDigit(), GTIN() and URI() of that SGTIN
    sTrip96, sTrip198,    \* DecodeSGTIN of its SGTIN-96 / SGTIN-198 packing
    fExp,                 \* the BitExploder
    fHist,                \* its SetWidths calls: how many, last widths and result, all nil so far,
                          \* the exploder before the last one
    fOut,                 \* outcome of the last Explode and its data
    fRd,                  \* the BitReader: built or not, its exploder, field and data
    fLast,                \* the last call on the BitReader: reader and buffer before, results
    tData, tOffset,       \* arguments of DecodeASCIIAt
    tDec,                 \* what DecodeASCIIAt returned
    gStr,                 \* a string handed to EscapeGS1
    gEsc, gBack,          \* EscapeGS1 of it, and UnescapeGS1 of that
    nAuth, nDate,         \* arguments of SetTaggingEntity
    nDec,                 \* the bittag Decoder
    nErr,                 \* what SetTaggingEntity / NewDecoder returned
    cStr,                 \* a string handed to the two character-set checks
    cAI, cCP,             \* what IsGS1AIEncodable / IsGS1CompPartEncodable returned
    bDec,                 \* the bittag Decoder in use
    bWidths, bCalls,      \* the widths it was last given, and how often
    bData,                \* the data handed to Decode
    bTag,                 \* what Decode returned: the BitTag, or the failure
    bUri, bIdx,           \* arguments of Fields(uri) and Field(uri, idx)
    bFields, bField,      \* what Fields and Field returned
    pPool,                \* the scratch buffers bufferPool holds
    pCalls,               \* the ExtractUInt64 calls in progress or finished
    vStart, vLen,         \* arguments of SetBounds on an extractor in use
    vBE,                  \* that extractor
    vRes                  \* how the last New or SetBounds ended, and the extractor before it

beVars == <<xStart, xLen, xSrc, xBE, xDest, xPc>>

decVars == <<dA, dB, rA, rB, dText>>

sgVars == <<sArgs, sNew, sCan, sOut, sTrip96, sTrip198>>

fldVars == <<fExp, fHist, fOut, fRd, fLast>>

txtVars == <<tData, tOffset, tDec, gStr, gEsc, gBack>>

entVars == <<nAuth, nDate, nDec, nErr>>

chrVars == <<cStr, cAI, cCP>>

tagVars == <<bDec, bWidths, bCalls, bData, bTag, bUri, bIdx, bFields, bField>>

poolVars == <<pPool, pCalls>>

bndVars == <<vStart, vLen, vBE, vRes>>

lateVars == <<chrVars, tagVars, poolVars, bndVars>>

moreVars == <<fldVars, txtVars, entVars, lateVars>>

vars == <<beVars, decVars, sgVars, moreVars>>

(***************************************************************************)
(* Bounds of the explored inputs.                                          *)
(***************************************************************************)
MaxStart == 10
MaxLen == 14
MaxSrcLen == 3
ByteVals == {0, 255, 165, 90}

(***************************************************************************)
(* Byte arithmetic (uint8).                                                *)
(***************************************************************************)
RECURSIVE Pow(_, _)
Pow(b, n) == IF n = 0 THEN 1 ELSE b * Pow(b, n - 1)

Shr(b, n) == b \div Pow(2, n)

Shl(b, n) == (b * Pow(2, n)) % 256

RECURSIVE BitOr(_, _, _)
BitOr(a, b, n) ==
    IF n = 0 THEN 0
    ELSE (IF a % 2 = 1 \/ b % 2 = 1 THEN 1 ELSE 0)
         + 2 * BitOr(a \div 2, b \div 2, n - 1)

RECURSIVE BitAnd(_, _, _)
BitAnd(a, b, n) ==
    IF n = 0 THEN 0
    ELSE (IF a % 2 = 1 /\ b % 2 = 1 THEN 1 ELSE 0)
         + 2 * BitAnd(a \div 2, b \div 2, n - 1)

Or8(a, b) == BitOr(a, b, 8)

And8(a, b) == BitAnd(a, b, 8)

(***************************************************************************)
(* package bitextract: BitExtractor                                        *)
(***************************************************************************)
ByteSize == 8
ByteMask == 255
srcAligned == 2
srcBiasPrev == 3
srcBiasNext == 4

\* the zero value BitExtractor{}
ZeroBE ==
    [bitStart |-> 0, byteStart |-> 0, srcLen |-> 0, dstLen |-> 0,
     bias |-> 0, rshift |-> 0, lshift |-> 0, mask |-> 0]

ifAligned(size, ifYes, ifNo) == IF size % ByteSize = 0 THEN ifYes ELSE ifNo

SetBoundsPanics(start, len) == start < 0 \/ len < 1 \/ start + len < 0

\* BiasOf without the case of a source span longer than the destination
BiasOf_Mut(rshift, srcLen, dstLen) ==
    IF rshift = 0 THEN srcAligned ELSE srcBiasPrev

BiasOf(rshift, srcLen, dstLen) ==
    IF rshift = 0 THEN srcAligned
    ELSE IF srcLen = dstLen THEN srcBiasPrev
    ELSE srcBiasNext

\* the fields SetBounds assigns when it does not panic
SetBounds(start, len) ==
    LET byteStart    == start \div ByteSize
        dstLen       == (len \div ByteSize) + ifAligned(len, 0, 1)
        srcEndByte   == ((start + len) \div ByteSize) - ifAligned(start + len, 1, 0)
        srcLen       == srcEndByte - byteStart + 1
        srcEndOffset == (start + len - 1) % ByteSize
        rshift       == ByteSize - srcEndOffset - 1
    IN  [bitStart |-> start, byteStart |-> byteStart,
         srcLen |-> srcLen, dstLen |-> dstLen,
         bias |-> BiasOf(rshift, srcLen, dstLen),
         rshift |-> rshift, lshift |-> srcEndOffset + 1,
         mask |-> ifAligned(len, ByteMask, Pow(2, len % ByteSize) - 1)]

New(start, len) == SetBounds(start, len)

ByteLength(ex) == ex.dstLen

Buffer(ex) == [i \in 1..ByteLength(ex) |-> 0]

ExtractToPanics(ex, dest, src) ==
    \/ Len(src) < ex.srcLen + ex.byteStart
    \/ Len(dest) < ex.dstLen
    \/ Len(dest) = 0

\* dest[i] (0-based i < dstLen) as the switch on the bias assigns it
ExtractByte(ex, src, i) ==
    IF ex.bias = srcAligned THEN src[ex.byteStart + i + 1]
    ELSE IF ex.bias = srcBiasPrev THEN
        IF i = 0 THEN Shr(src[ex.byteStart + 1], ex.rshift)
        ELSE Or8(Shl(src[i + ex.byteStart], ByteSize - ex.rshift),
                 Shr(src[i + ex.byteStart + 1], ex.rshift))
    ELSE IF ex.bias = srcBiasNext THEN
        Or8(Shl(src[i + ex.byteStart + 1], ByteSize - ex.rshift),
            Shr(src[i + ex.byteStart + 2], ex.rshift))
    ELSE 0

\* dest after ExtractTo(dest, src), when it does not panic: the switch on the
\* bias fills dest[0..dstLen), then dest[0] &= mask
ExtractTo(ex, dest, src) ==
    LET filled(i) == IF i <= ex.dstLen /\ ex.bias \in {srcAligned, srcBiasPrev, srcBiasNext}
                     THEN ExtractByte(ex, src, i - 1)
                     ELSE dest[i]
    IN  [i \in 1..Len(dest) |-> IF i = 1 THEN And8(filled(1), ex.mask) ELSE filled(i)]

Extract(ex, src) == ExtractTo(ex, Buffer(ex), src)

(***************************************************************************)
(* package bitextract: BitExploder                                         *)
(***************************************************************************)
\* the zero value BitExploder{}
ZeroExploder == [bitLength |-> 0, expByteLen |-> 0, extractors |-> <<>>]

\* the loop of SetWidths from widths[i-1] on: it returns an error at the first
\* width <= 0, keeping what the earlier rounds assigned
RECURSIVE SetWidthsFrom(_, _, _)
SetWidthsFrom(exp, widths, i) ==
    IF i > Len(widths) THEN [exp |-> exp, err |-> "nil"]
    ELSE IF widths[i] <= 0 THEN [exp |-> exp, err |-> "error"]
    ELSE LET be == New(exp.bitLength, widths[i])
         IN  SetWidthsFrom(
                 [bitLength  |-> exp.bitLength + widths[i],
                  expByteLen |-> exp.expByteLen + ByteLength(be),
                  extractors |-> [k \in 1..Len(exp.extractors) |->
                                     IF k = i THEN be ELSE exp.extractors[k]]],
                 widths, i + 1)

\* bitLength and extractors are reset before the loop, expByteLen is not
SetWidths(exp, widths) ==
    IF Len(widths) = 0 THEN [exp |-> exp, err |-> "error"]
    ELSE SetWidthsFrom(
             [bitLength  |-> 0,
              expByteLen |-> exp.expByteLen,
              extractors |-> [k \in 1..Len(widths) |-> ZeroBE]],
             widths, 1)

\* returns the exploder SetWidths left, with its error
NewBitExploder(widths) == SetWidths(ZeroExploder, widths)

NumFields(exp) == Len(exp.extractors)

BitLength(exp) == exp.bitLength

ExplodedByteLength(exp) == exp.expByteLen

RECURSIVE SumByteLength(_, _)
SumByteLength(exp, n) ==
    IF n = 0 THEN 0
    ELSE SumByteLength(exp, n - 1) + ByteLength(exp.extractors[n])

\* BitExploder.Buffer cuts one slice per extractor off a buffer of expByteLen
\* bytes: slicing beyond what is left of it panics
ExploderBufferPanics(exp) ==
    \E n \in 1..NumFields(exp) : SumByteLength(exp, n) > exp.expByteLen

\* BitExploder.Buffer
ExploderBuffer(exp) == [k \in 1..NumFields(exp) |-> Buffer(exp.extractors[k])]

ExplodeToPanics(exp, dst, data) ==
    \/ Len(dst) < NumFields(exp)
    \/ \E k \in 1..NumFields(exp) : ExtractToPanics(exp.extractors[k], dst[k], data)

ExplodeTo(exp, dst, data) ==
    [k \in 1..Len(dst) |->
        IF k <= NumFields(exp) THEN ExtractTo(exp.extractors[k], dst[k], data)
        ELSE dst[k]]

\* Explode that also refuses a buffer of exactly bitLength bits
Explode_Mut(exp, data) ==
    IF Len(data) * 8 <= exp.bitLength
    THEN [status |-> "error", fields |-> <<>>]
    ELSE IF ExploderBufferPanics(exp) \/ ExplodeToPanics(exp, ExploderBuffer(exp), data)
    THEN [status |-> "panic", fields |-> <<>>]
    ELSE [status |-> "ok", fields |-> ExplodeTo(exp, ExploderBuffer(exp), data)]

Explode(exp, data) ==
    IF Len(data) * 8 < exp.bitLength
    THEN [status |-> "error", fields |-> <<>>]
    ELSE IF ExploderBufferPanics(exp) \/ ExplodeToPanics(exp, ExploderBuffer(exp), data)
    THEN [status |-> "panic", fields |-> <<>>]
    ELSE [status |-> "ok", fields |-> ExplodeTo(exp, ExploderBuffer(exp), data)]

(***************************************************************************)
(* package bitextract: BitReader                                           *)
(***************************************************************************)
\* &BitReader{exp: exp}
ZeroReader(exp) == [exp |-> exp, field |-> 0, data |-> <<>>]

\* SetData that keeps the cursor where it was
SetData_Mut(r, data) ==
    IF Len(data) * 8 < r.exp.bitLength
    THEN [r |-> r, err |-> "error"]
    ELSE [r |-> [exp |-> r.exp, field |-> r.field, data |-> data], err |-> "nil"]

SetData(r, data) ==
    IF Len(data) * 8 < r.exp.bitLength
    THEN [r |-> r, err |-> "error"]
    ELSE [r |-> [exp |-> r.exp, field |-> 0, data |-> data], err |-> "nil"]

\* returns the reader together with SetData's error
NewBitReader(exp, data) == SetData(ZeroReader(exp), data)

Reset(r) == [exp |-> r.exp, field |-> 0, data |-> r.data]

\* ReadInto that leaves the leading bytes of p as they were
ReadInto_Mut(ex, p, data) ==
    LET lead == Len(p) - ex.dstLen
        tail == SubSeq(p, lead + 1, Len(p))
    IN  [i \in 1..Len(p) |->
            IF i <= lead THEN p[i] ELSE ExtractTo(ex, tail, data)[i - lead]]

\* p after the leading bytes are cleared and the field is extracted into
\* its last dstLen bytes
ReadInto(ex, p, data) ==
    LET lead == Len(p) - ex.dstLen
        tail == SubSeq(p, lead + 1, Len(p))
    IN  [i \in 1..Len(p) |->
            IF i <= lead THEN 0 ELSE ExtractTo(ex, tail, data)[i - lead]]

\* Read that moves to the next field when p is too short
Read_Mut(r, p) ==
    IF r.field >= NumFields(r.exp)
    THEN [r |-> r, p |-> p, n |-> 0, err |-> "EOF"]
    ELSE LET ex   == r.exp.extractors[r.field + 1]
             lead == Len(p) - ex.dstLen
         IN  IF ex.dstLen > Len(p)
             THEN [r |-> [exp |-> r.exp, field |-> r.field + 1, data |-> r.data],
                   p |-> p, n |-> 0, err |-> "ErrShortBuffer"]
             ELSE IF ExtractToPanics(ex, SubSeq(p, lead + 1, Len(p)), r.data)
             THEN [r |-> r,
                   p |-> [i \in 1..Len(p) |-> IF i <= lead THEN 0 ELSE p[i]],
                   n |-> 0, err |-> "panic"]
             ELSE [r |-> [exp |-> r.exp, field |-> r.field + 1, data |-> r.data],
                   p |-> ReadInto(ex, p, r.data),
                   n |-> Len(p), err |-> "nil"]

\* Read(p): the reader and p after the call, the count and the error; a panic
\* of ExtractTo comes after the leading bytes of p were cleared
Read(r, p) ==
    IF r.field >= NumFields(r.exp)
    THEN [r |-> r, p |-> p, n |-> 0, err |-> "EOF"]
    ELSE LET ex   == r.exp.extractors[r.field + 1]
             lead == Len(p) - ex.dstLen
         IN  IF ex.dstLen > Len(p)
             THEN [r |-> r, p |-> p, n |-> 0, err |-> "ErrShortBuffer"]
             ELSE IF ExtractToPanics(ex, SubSeq(p, lead + 1, Len(p)), r.data)
             THEN [r |-> r,
                   p |-> [i \in 1..Len(p) |-> IF i <= lead THEN 0 ELSE p[i]],
                   n |-> 0, err |-> "panic"]
             ELSE [r |-> [exp |-> r.exp, field |-> r.field + 1, data |-> r.data],
                   p |-> ReadInto(ex, p, r.data),
                   n |-> Len(p), err |-> "nil"]

(***************************************************************************)
(* Wide integers.  A Go int or uint64 that may exceed 31 bits is kept as   *)
(* its decimal digits, least significant first, without leading zeros      *)
(* (zero is the empty sequence); a signed value is [neg, mag].             *)
(***************************************************************************)
RECURSIVE WMulAdd(_, _, _)
WMulAdd(d, m, a) ==
    IF d = <<>>
    THEN IF a = 0 THEN <<>> ELSE <<a % 10>> \o WMulAdd(<<>>, m, a \div 10)
    ELSE LET t == Head(d) * m + a
         IN  <<t % 10>> \o WMulAdd(Tail(d), m, t \div 10)

RECURSIVE WFromInt(_)
WFromInt(n) == IF n = 0 THEN <<>> ELSE <<n % 10>> \o WFromInt(n \div 10)

RECURSIVE WToInt(_)
WToInt(d) == IF d = <<>> THEN 0 ELSE Head(d) + 10 * WToInt(Tail(d))

WCmp(a, b) ==
    IF Len(a) # Len(b) THEN (IF Len(a) < Len(b) THEN -1 ELSE 1)
    ELSE LET diff == {k \in 1..Len(a) : a[k] # b[k]}
         IN  IF diff = {} THEN 0
             ELSE LET k == CHOOSE j \in diff : \A i \in diff : i <= j
                  IN  IF a[k] < b[k] THEN -1 ELSE 1

WHalf(d) ==
    LET n == Len(d)
        q == [k \in 1..n |->
                ((IF k < n THEN (d[k + 1] % 2) * 10 ELSE 0) + d[k]) \div 2]
    IN  IF n > 0 /\ q[n] = 0 THEN SubSeq(q, 1, n - 1) ELSE SubSeq(q, 1, n)

\* the low width bits of d, most significant first
RECURSIVE WToBits(_, _)
WToBits(d, width) ==
    IF width = 0 THEN <<>>
    ELSE IF d = <<>> THEN [k \in 1..width |-> 0]
    ELSE WToBits(WHalf(d), width - 1) \o <<d[1] % 2>>

\* a decimal literal written most significant digit first
WLit(ds) == [k \in 1..Len(ds) |-> ds[Len(ds) + 1 - k]]

Nines(n) == [k \in 1..n |-> 9]

SInt(n) == [neg |-> n < 0, mag |-> WFromInt(IF n < 0 THEN -n ELSE n)]

SPos(d) == [neg |-> FALSE, mag |-> d]

\* a + b + c over digit sequences
RECURSIVE WAddC(_, _, _)
WAddC(a, b, c) ==
    IF a = <<>> /\ b = <<>> THEN (IF c = 0 THEN <<>> ELSE <<c>>)
    ELSE LET x == (IF a = <<>> THEN 0 ELSE a[1]) + (IF b = <<>> THEN 0 ELSE b[1]) + c
         IN  <<x % 10>> \o WAddC(IF a = <<>> THEN <<>> ELSE Tail(a),
                                  IF b = <<>> THEN <<>> ELSE Tail(b), x \div 10)

WAdd(a, b) == WAddC(a, b, 0)

RECURSIVE WTrim(_)
WTrim(d) ==
    IF d = <<>> THEN <<>>
    ELSE IF d[Len(d)] = 0 THEN WTrim(SubSeq(d, 1, Len(d) - 1))
    ELSE d

\* a - b - c digit by digit, for a >= b + c
RECURSIVE WSubB(_, _, _)
WSubB(a, b, c) ==
    IF a = <<>> THEN <<>>
    ELSE LET x == a[1] - (IF b = <<>> THEN 0 ELSE b[1]) - c
         IN  <<IF x < 0 THEN x + 10 ELSE x>>
             \o WSubB(Tail(a), IF b = <<>> THEN <<>> ELSE Tail(b), IF x < 0 THEN 1 ELSE 0)

WSub(a, b) == WTrim(WSubB(a, b, 0))

WDiv8(d) == WHalf(WHalf(WHalf(d)))

\* d % 8: 1000 is a multiple of 8
WMod8(d) ==
    ((IF Len(d) >= 1 THEN d[1] ELSE 0) + 10 * (IF Len(d) >= 2 THEN d[2] ELSE 0)
     + 100 * (IF Len(d) >= 3 THEN d[3] ELSE 0)) % 8

\* 1<<63 - 1, the largest int
MaxInt64 == WLit(<<9, 2, 2, 3, 3, 7, 2, 0, 3, 6, 8, 5, 4, 7, 7, 5, 8, 0, 7>>)

(***************************************************************************)
(* package bitextract: SetBounds over ints of 64 bits                      *)
(***************************************************************************)
\* the zero value BitExtractor{} with its int fields at their full width
ZeroBE64 ==
    [bitStart |-> <<>>, byteStart |-> <<>>, srcLen |-> <<>>, dstLen |-> <<>>,
     bias |-> 0, rshift |-> 0, lshift |-> 0, mask |-> 0]

\* start < 0 || len < 1, or start+len < 0: the sum of two non-negative ints
\* wraps to a negative int when it is above 1<<63 - 1
SetBounds64Panics(start, len) ==
    \/ start.neg
    \/ len.neg
    \/ len.mag = <<>>
    \/ WCmp(WAdd(start.mag, len.mag), MaxInt64) > 0

\* SetBounds64Fields with dstLen = len/ByteSize
SetBounds64Fields_Mut(start, len) ==
    LET sum          == WAdd(start, len)
        byteStart    == WDiv8(start)
        dstLen       == WDiv8(len)
        srcEndByte   == WSub(WDiv8(sum), WFromInt(IF WMod8(sum) = 0 THEN 1 ELSE 0))
        srcLen       == WAdd(WSub(srcEndByte, byteStart), <<1>>)
        srcEndOffset == WMod8(WSub(sum, <<1>>))
        rshift       == ByteSize - srcEndOffset - 1
    IN  [bitStart |-> start, byteStart |-> byteStart,
         srcLen |-> srcLen, dstLen |-> dstLen,
         bias |-> IF rshift = 0 THEN srcAligned
                  ELSE IF srcLen = dstLen THEN srcBiasPrev ELSE srcBiasNext,
         rshift |-> rshift, lshift |-> srcEndOffset + 1,
         mask |-> IF WMod8(len) = 0 THEN ByteMask ELSE Pow(2, WMod8(len)) - 1]

\* the fields SetBounds assigns, start and len being ints of 64 bits given by
\* their digits
SetBounds64Fields(start, len) ==
    LET sum          == WAdd(start, len)
        byteStart    == WDiv8(start)
        dstLen       == WAdd(WDiv8(len), WFromInt(IF WMod8(len) = 0 THEN 0 ELSE 1))
        srcEndByte   == WSub(WDiv8(sum), WFromInt(IF WMod8(sum) = 0 THEN 1 ELSE 0))
        srcLen       == WAdd(WSub(srcEndByte, byteStart), <<1>>)
        srcEndOffset == WMod8(WSub(sum, <<1>>))
        rshift       == ByteSize - srcEndOffset - 1
    IN  [bitStart |-> start, byteStart |-> byteStart,
         srcLen |-> srcLen, dstLen |-> dstLen,
         bias |-> IF rshift = 0 THEN srcAligned
                  ELSE IF srcLen = dstLen THEN srcBiasPrev ELSE srcBiasNext,
         rshift |-> rshift, lshift |-> srcEndOffset + 1,
         mask |-> IF WMod8(len) = 0 THEN ByteMask ELSE Pow(2, WMod8(len)) - 1]

\* be.SetBounds(start, len): [status, be], the extractor as the call leaves it
SetBounds64(be, start, len) ==
    IF SetBounds64Panics(start, len) THEN [status |-> "panic", be |-> be]
    ELSE [status |-> "ok", be |-> SetBounds64Fields(start.mag, len.mag)]

\* New(start, len) at full width
New64(start, len) == SetBounds64(ZeroBE64, start, len)

\* binary.BigEndian.Uint64 over the bytes of a buffer
RECURSIVE Uint64Prefix(_, _)
Uint64Prefix(buff, k) ==
    IF k = 0 THEN <<>> ELSE WMulAdd(Uint64Prefix(buff, k - 1), 256, buff[k])

Uint64(buff) == Uint64Prefix(buff, 8)

ExtractUInt64Panics(ex, src) ==
    \/ ex.dstLen > 8
    \/ ExtractToPanics(ex, [i \in 1..ex.dstLen |-> 0], src)

\* the uint64 ExtractUInt64 returns: a zeroed 8-byte scratch buffer receives
\* the field in its last dstLen bytes
ExtractUInt64(ex, src) ==
    LET zero == [i \in 1..8 |-> 0]
        tail == ExtractTo(ex, SubSeq(zero, 8 - ex.dstLen + 1, 8), src)
        buff == SubSeq(zero, 1, 8 - ex.dstLen) \o tail
    IN  Uint64(buff)

(***************************************************************************)
(* bufferPool and the steps of one ExtractUInt64 call                      *)
(***************************************************************************)
\* the pool after bufferPool.Get() took buffer id and left every buffer in it
PoolTake_Mut(pool, id) == pool

\* the pool after bufferPool.Get() took buffer id out of it
PoolTake(pool, id) == [bufs |-> pool.bufs, free |-> pool.free \ {id}]

\* the pool after bufferPool.Get() found nothing and called New: the fresh
\* buffer make([]byte, 8) has the next id and goes to the caller
PoolNew(pool) ==
    [bufs |-> Append(pool.bufs, [i \in 1..8 |-> 0]), free |-> pool.free]

\* the pool after bufferPool.Put(buff)
PoolPut(pool, id) == [bufs |-> pool.bufs, free |-> pool.free \cup {id}]

\* the pool's buffers after a write of content to buffer id
PoolWrite(pool, id, content) ==
    [bufs |-> [k \in 1..Len(pool.bufs) |-> IF k = id THEN content ELSE pool.bufs[k]],
     free |-> pool.free]

\* buff after be.ExtractTo(buff[8-be.dstLen:], src), when it does not panic
ScratchExtract(ex, buff, src) ==
    SubSeq(buff, 1, 8 - ex.dstLen)
        \o ExtractTo(ex, SubSeq(buff, 8 - ex.dstLen + 1, 8), src)

(***************************************************************************)
(* fmt verbs on integers: %d and %0[w]*d                                   *)
(***************************************************************************)
DigitChars(d) ==
    IF d = <<>> THEN <<48>> ELSE [k \in 1..Len(d) |-> 48 + d[Len(d) + 1 - k]]

\* wid = 0: plain %d; wid > 0: zero padded to wid characters, sign included
FmtD(wid, x) ==
    LET ds   == DigitChars(x.mag)
        prec == IF x.neg THEN wid - 1 ELSE wid
        pad  == IF prec > Len(ds) THEN [k \in 1..(prec - Len(ds)) |-> 48] ELSE <<>>
    IN  (IF x.neg THEN <<45>> ELSE <<>>) \o pad \o ds

(***************************************************************************)
(* package epc: ASCII7 packer, GS1 escaping and character sets             *)
(***************************************************************************)
nullASCII == 0

\* asciiExtracts[k] of the source is AsciiExtracts[k + 1]
AsciiExtracts ==
    <<New(0, 7), New(7, 7), New(6, 7), New(5, 7),
      New(4, 7), New(3, 7), New(2, 7), New(1, 7)>>

\* Go's integer division truncates toward zero
GoDiv(a, b) == IF a >= 0 THEN a \div b ELSE -((-a) \div b)

DropBytes(seq, n) == SubSeq(seq, n + 1, Len(seq))

OutbyteLen(data, offset) == GoDiv((Len(data) * 8) - offset, 7)

\* AsciiExt that never advances ext
AsciiExt_Mut(offset, i) == AsciiExtracts[((8 - offset) % 8) + 1]

\* the source window and extractor of loop iteration i
AsciiExt(offset, i) == AsciiExtracts[((((8 - offset) % 8) + i) % 8) + 1]

\* AsciiInbyte with the byte index rounded one bit early
AsciiInbyte_Mut(offset, i) == i - GoDiv(i + 8 - offset, 8)

AsciiInbyte(offset, i) == i - GoDiv(i + 7 - offset, 8)

DecodeASCIIAtPanics(data, offset) ==
    \/ offset < 0
    \/ offset > 7
    \/ \E i \in 0..(OutbyteLen(data, offset) - 1) :
          \/ AsciiInbyte(offset, i) > Len(data)
          \/ ExtractToPanics(AsciiExt(offset, i), <<0>>,
                             DropBytes(data, AsciiInbyte(offset, i)))

\* outdata after the loop
AsciiOutdata(data, offset) ==
    [k \in 1..OutbyteLen(data, offset) |->
        ExtractTo(AsciiExt(offset, k - 1),
                  [j \in 1..(OutbyteLen(data, offset) - k + 1) |-> 0],
                  DropBytes(data, AsciiInbyte(offset, k - 1)))[1]]

\* AsciiScan that keeps the index of the last null in nullTerm
RECURSIVE AsciiScan_Mut(_, _, _, _)
AsciiScan_Mut(outdata, i, nullTerm, extra) ==
    IF i >= Len(outdata) THEN [nullTerm |-> nullTerm, extra |-> extra]
    ELSE IF outdata[i + 1] = 0
         THEN AsciiScan_Mut(outdata, i + 1, i, extra)
         ELSE AsciiScan_Mut(outdata, i + 1, nullTerm, IF nullTerm # -1 THEN TRUE ELSE extra)

\* the loop's bookkeeping of nullTerm and extra over outdata[i..]
RECURSIVE AsciiScan(_, _, _, _)
AsciiScan(outdata, i, nullTerm, extra) ==
    IF i >= Len(outdata) THEN [nullTerm |-> nullTerm, extra |-> extra]
    ELSE IF outdata[i + 1] = nullASCII
         THEN AsciiScan(outdata, i + 1, IF nullTerm = -1 THEN i ELSE nullTerm, extra)
         ELSE AsciiScan(outdata, i + 1, nullTerm, IF nullTerm # -1 THEN TRUE ELSE extra)

\* DecodeASCIIAt whose early return never sets the flag
DecodeASCIIAt_Mut(data, offset) ==
    IF OutbyteLen(data, offset) <= 0
    THEN [out |-> <<>>, nullTerm |-> 0, extra |-> FALSE]
    ELSE LET outdata == AsciiOutdata(data, offset)
             scan    == AsciiScan(outdata, 0, -1, FALSE)
         IN  [out |-> outdata,
              nullTerm |-> IF scan.nullTerm = -1 THEN Len(outdata) ELSE scan.nullTerm,
              extra |-> scan.extra]

\* (out, nullTerm, extra) of DecodeASCIIAt when it does not panic
DecodeASCIIAt(data, offset) ==
    IF OutbyteLen(data, offset) <= 0
    THEN [out |-> <<>>, nullTerm |-> 0,
          extra |-> Len(data) = 1 /\ data[1] # nullASCII]
    ELSE LET outdata == AsciiOutdata(data, offset)
             scan    == AsciiScan(outdata, 0, -1, FALSE)
         IN  [out |-> outdata,
              nullTerm |-> IF scan.nullTerm = -1 THEN Len(outdata) ELSE scan.nullTerm,
              extra |-> scan.extra]

\* Gs1EscapeOf without the pattern "%"
Gs1EscapeOf_Mut(c) ==
    IF c = 34 THEN <<37, 50, 50>>
    ELSE IF c = 35 THEN <<37, 50, 51>>
    ELSE IF c = 38 THEN <<37, 50, 54>>
    ELSE IF c = 47 THEN <<37, 50, 70>>
    ELSE IF c = 60 THEN <<37, 51, 67>>
    ELSE IF c = 62 THEN <<37, 51, 69>>
    ELSE IF c = 63 THEN <<37, 51, 70>>
    ELSE IF c = 0 THEN <<>>
    ELSE <<c>>

\* the single-byte patterns of gs1Escaper and their replacements
Gs1EscapeOf(c) ==
    IF c = 34 THEN <<37, 50, 50>>
    ELSE IF c = 35 THEN <<37, 50, 51>>
    ELSE IF c = 37 THEN <<37, 50, 53>>
    ELSE IF c = 38 THEN <<37, 50, 54>>
    ELSE IF c = 47 THEN <<37, 50, 70>>
    ELSE IF c = 60 THEN <<37, 51, 67>>
    ELSE IF c = 62 THEN <<37, 51, 69>>
    ELSE IF c = 63 THEN <<37, 51, 70>>
    ELSE IF c = 0 THEN <<>>
    ELSE <<c>>

RECURSIVE EscapeGS1(_)
EscapeGS1(str) ==
    IF str = <<>> THEN <<>> ELSE Gs1EscapeOf(Head(str)) \o EscapeGS1(Tail(str))

\* the three-byte patterns of gs1Unescaper "%" a b and their replacements;
\* -1 when "%" a b is none of them
Gs1UnescapeOf(a, b) ==
    IF a = 50 /\ b = 50 THEN 34
    ELSE IF a = 50 /\ b = 51 THEN 35
    ELSE IF a = 50 /\ b = 53 THEN 37
    ELSE IF a = 50 /\ b = 54 THEN 38
    ELSE IF a = 50 /\ b = 70 THEN 47
    ELSE IF a = 51 /\ b = 67 THEN 60
    ELSE IF a = 51 /\ b = 69 THEN 62
    ELSE IF a = 51 /\ b = 70 THEN 63
    ELSE -1

\* the replacer scans left to right: a pattern found at the current byte is
\* replaced and skipped, any other byte is copied
RECURSIVE UnescapeFrom(_, _)
UnescapeFrom(str, i) ==
    IF i > Len(str) THEN <<>>
    ELSE IF /\ i + 2 <= Len(str)
            /\ str[i] = 37
            /\ Gs1UnescapeOf(str[i + 1], str[i + 2]) # -1
         THEN <<Gs1UnescapeOf(str[i + 1], str[i + 2])>> \o UnescapeFrom(str, i + 3)
         ELSE <<str[i]>> \o UnescapeFrom(str, i + 1)

UnescapeGS1(str) == UnescapeFrom(str, 1)

\* the indices at which gs1AICharSet, an array of 127 entries, holds 1
gs1AICharSet == {33, 34} \cup (37..63) \cup (65..90) \cup {95} \cup (97..122)

CharSetLen == 127

AllNullFrom(str, i) == \A j \in (i + 1)..Len(str) : str[j] = nullASCII

\* IsGS1AIEncodable from index i on: "true", "false", or "panic" when the
\* table is indexed outside [0, 127)
RECURSIVE IsGS1AIEncodableFrom(_, _)
IsGS1AIEncodableFrom(str, i) ==
    IF i >= Len(str) THEN "true"
    ELSE LET c == str[i + 1]
         IN  IF c = nullASCII
             THEN IF AllNullFrom(str, i + 1) THEN IsGS1AIEncodableFrom(str, i + 1)
                  ELSE "false"
             ELSE IF c > 127 THEN "false"
             ELSE IF (c % 128) >= CharSetLen THEN "panic"
             ELSE IF (c % 128) \in gs1AICharSet THEN IsGS1AIEncodableFrom(str, i + 1)
             ELSE "false"

IsGS1AIEncodable(str) == IsGS1AIEncodableFrom(str, 0)

\* gs1AICPCharSet with the space character
gs1AICPCharSet_Mut == {32, 35, 45, 47} \cup (48..57) \cup (65..90)

\* the indices at which gs1AICPCharSet, an array of 127 entries, holds 1:
\* # - / 0-9 A-Z
gs1AICPCharSet == {35, 45, 47} \cup (48..57) \cup (65..90)

\* IsGS1CompPartEncodable from index i on: "true", "false", or "panic" when
\* the table is indexed outside [0, 127)
RECURSIVE IsGS1CompPartEncodableFrom(_, _)
IsGS1CompPartEncodableFrom(str, i) ==
    IF i >= Len(str) THEN "true"
    ELSE LET c == str[i + 1]
         IN  IF c = nullASCII
             THEN IF AllNullFrom(str, i + 1) THEN IsGS1CompPartEncodableFrom(str, i + 1)
                  ELSE "false"
             ELSE IF c > 127 THEN "false"
             ELSE IF (c % 128) >= CharSetLen THEN "panic"
             ELSE IF (c % 128) \in gs1AICPCharSet
                  THEN IsGS1CompPartEncodableFrom(str, i + 1)
             ELSE "false"

IsGS1CompPartEncodable(str) == IsGS1CompPartEncodableFrom(str, 0)

(***************************************************************************)
(* package epc: SGTIN                                                      *)
(***************************************************************************)
\* "urn:epc:id:sgtin"
SGTINPureURIPrefix ==
    <<117, 114, 110, 58, 101, 112, 99, 58, 105, 100, 58, 115, 103, 116, 105, 110>>
SGTIN96NumBytes == 12
SGTIN198NumBytes == 25
SGTIN96Header == 48
SGTIN198Header == 54

headerLen == 8
filterLen == 3
partitionLen == 3
prefixIIRLen == 44
headerStartBit == 0
filterStartBit == headerStartBit + headerLen
partitionStartBit == filterStartBit + filterLen
gcpStartBit == partitionStartBit + partitionLen
serialStartBit == gcpStartBit + prefixIIRLen
serial96Len == 96 - serialStartBit
serial198Len == 198 - serialStartBit
serialStartByte == serialStartBit \div 8
serialOffsetBit == serialStartBit % 8

filterExt == New(filterStartBit, filterLen)
partitionExt == New(partitionStartBit, partitionLen)
serial96Ext == New(serialStartBit, serial96Len)

\* companyExt[p] of the source is CompanyExt[p + 1]; likewise the other tables
CompanyExt ==
    <<New(gcpStartBit, 40), New(gcpStartBit, 37), New(gcpStartBit, 34),
      New(gcpStartBit, 30), New(gcpStartBit, 27), New(gcpStartBit, 24),
      New(gcpStartBit, 20)>>

IirExt ==
    <<New(serialStartBit - 4, 4), New(serialStartBit - 7, 7),
      New(serialStartBit - 10, 10), New(serialStartBit - 14, 14),
      New(serialStartBit - 17, 17), New(serialStartBit - 20, 20),
      New(serialStartBit - 24, 24)>>

MaxItems == <<1, 10, 100, 1000, 10000, 100000, 1000000>>

MaxPrefix ==
    <<Nines(12), Nines(11), Nines(10), Nines(9), Nines(8), Nines(7), Nines(6)>>

\* FilterValue constants
Other == 0
POS == 1
FullCase == 2
reserved1 == 3
InnerPack == 4
reserved2 == 5
UnitLoad == 6
UnitPack == 7

\* IsValid without the reserved values
IsValid_Mut(fv) == fv >= Other /\ fv <= UnitPack

IsValid(fv) == fv >= Other /\ fv <= UnitPack /\ ~(fv = reserved1 \/ fv = reserved2)

\* SGTIN{}
ZeroSGTIN ==
    [filter |-> 0, partition |-> 0, companyPrefix |-> SInt(0),
     indicator |-> 0, itemRef |-> 0, serial |-> <<>>]

\* "nil", "error", or "panic" when the character table is indexed out of range
ValidateRanges(sg) ==
    IF sg.indicator < 0 \/ sg.indicator > 9 THEN "error"
    ELSE IF ~IsValid(sg.filter) THEN "error"
    ELSE IF sg.partition < 0 \/ sg.partition > 6 THEN "error"
    ELSE IF sg.itemRef < 0 \/ sg.itemRef > MaxItems[sg.partition + 1] - 1 THEN "error"
    ELSE IF sg.companyPrefix.neg
            \/ WCmp(sg.companyPrefix.mag, MaxPrefix[sg.partition + 1]) > 0 THEN "error"
    ELSE IF sg.serial = <<>> THEN "error"
    ELSE IF Len(sg.serial) > 20 THEN "error"
    ELSE LET enc == IsGS1AIEncodable(sg.serial)
         IN  IF enc = "panic" THEN "panic"
             ELSE IF enc = "false" THEN "error"
             ELSE "nil"

NewSGTIN(filter, partition, indicator, companyPrefix, itemRef, serial) ==
    LET sg == [filter |-> filter, partition |-> partition,
               companyPrefix |-> companyPrefix, indicator |-> indicator,
               itemRef |-> itemRef, serial |-> serial]
    IN  [sgtin |-> sg, err |-> ValidateRanges(sg)]

\* 1<<38 - 1, the largest value ParseUint(s, 10, 38) accepts
ParseUintMax38 == Uint64(<<0, 0, 0, 63, 255, 255, 255, 255>>)

\* strconv.ParseUint(s, 10, 38) from character i on, n being the value so far:
\* TRUE iff it returns an error
RECURSIVE ParseUintErrFrom(_, _, _)
ParseUintErrFrom(str, i, n) ==
    IF i >= Len(str) THEN FALSE
    ELSE LET c == str[i + 1]
         IN  IF c < 48 \/ c > 57 THEN TRUE
             ELSE LET n1 == WMulAdd(n, 10, c - 48)
                  IN  IF WCmp(n1, ParseUintMax38) > 0 THEN TRUE
                      ELSE ParseUintErrFrom(str, i + 1, n1)

ParseUintErr(str) == str = <<>> \/ ParseUintErrFrom(str, 0, <<>>)

\* CanSGTIN96 without the leading-zero rule
CanSGTIN96_Mut(sg) ==
    IF sg.serial = <<>> THEN "error"
    ELSE IF ParseUintErr(sg.serial) THEN "error"
    ELSE "nil"

CanSGTIN96(sg) ==
    IF sg.serial = <<>> THEN "error"
    ELSE IF ParseUintErr(sg.serial) THEN "error"
    ELSE IF sg.serial[1] = 48 /\ sg.serial # <<48>> THEN "error"
    ELSE "nil"

RECURSIVE checkSumFrom(_, _, _)
checkSumFrom(mag, d1, i) ==
    IF mag = <<>> THEN 0
    ELSE Head(mag) * (IF (d1 - i) % 2 = 1 THEN 3 ELSE 1)
         + checkSumFrom(Tail(mag), d1, i + 1)

\* the loop runs while n > 0
checkSum(n, d1) == IF n.neg THEN 0 ELSE checkSumFrom(n.mag, d1, 0)

\* checkDigit with the company prefix anchored one position low
checkDigit_Mut(sg) ==
    LET sum == checkSum(SInt(sg.itemRef), 1)
               + checkSum(sg.companyPrefix, 12 - sg.partition)
               + checkSum(SInt(sg.indicator), 13)
    IN  (10 - (sum % 10)) % 10

checkDigit(sg) ==
    LET sum == checkSum(SInt(sg.itemRef), 1)
               + checkSum(sg.companyPrefix, 13 - sg.partition)
               + checkSum(SInt(sg.indicator), 13)
    IN  (10 - (sum % 10)) % 10

\* GTIN without the special case of partition 0
GTIN_Mut(sg) ==
    FmtD(0, SInt(sg.indicator))
    \o FmtD(12 - sg.partition, sg.companyPrefix)
    \o FmtD(sg.partition, SInt(sg.itemRef))
    \o FmtD(0, SInt(checkDigit(sg)))

GTIN(sg) ==
    IF sg.partition = 0
    THEN FmtD(0, SInt(sg.indicator)) \o FmtD(12, sg.companyPrefix)
         \o FmtD(0, SInt(checkDigit(sg)))
    ELSE FmtD(0, SInt(sg.indicator))
         \o FmtD(12 - sg.partition, sg.companyPrefix)
         \o FmtD(sg.partition, SInt(sg.itemRef))
         \o FmtD(0, SInt(checkDigit(sg)))

URI(sg) ==
    IF sg.partition = 0
    THEN SGTINPureURIPrefix \o <<58>> \o FmtD(12 - sg.partition, sg.companyPrefix)
         \o <<46>> \o FmtD(0, SInt(sg.indicator))
         \o <<46>> \o EscapeGS1(sg.serial)
    ELSE SGTINPureURIPrefix \o <<58>> \o FmtD(12 - sg.partition, sg.companyPrefix)
         \o <<46>> \o FmtD(0, SInt(sg.indicator)) \o FmtD(sg.partition, SInt(sg.itemRef))
         \o <<46>> \o EscapeGS1(sg.serial)

\* DecodeSerial refusing only buffers that are too short
DecodeSerial_Mut(b) ==
    IF b[1] = SGTIN96Header THEN
        IF Len(b) < SGTIN96NumBytes THEN [status |-> "error", serial |-> <<>>]
        ELSE IF ExtractUInt64Panics(serial96Ext, b) THEN [status |-> "panic", serial |-> <<>>]
        ELSE [status |-> "ok", serial |-> FmtD(0, SPos(ExtractUInt64(serial96Ext, b)))]
    ELSE IF b[1] = SGTIN198Header THEN
        IF Len(b) < SGTIN198NumBytes THEN [status |-> "error", serial |-> <<>>]
        ELSE IF DecodeASCIIAtPanics(DropBytes(b, serialStartByte), serialOffsetBit)
             THEN [status |-> "panic", serial |-> <<>>]
        ELSE LET r == DecodeASCIIAt(DropBytes(b, serialStartByte), serialOffsetBit)
             IN  [status |-> "ok",
                  serial |-> IF r.extra THEN r.out ELSE SubSeq(r.out, 1, r.nullTerm)]
    ELSE [status |-> "error", serial |-> <<>>]

\* the switch on the header byte: the serial, or the error it returns
DecodeSerial(b) ==
    IF b[1] = SGTIN96Header THEN
        IF Len(b) # SGTIN96NumBytes THEN [status |-> "error", serial |-> <<>>]
        ELSE IF ExtractUInt64Panics(serial96Ext, b) THEN [status |-> "panic", serial |-> <<>>]
        ELSE [status |-> "ok", serial |-> FmtD(0, SPos(ExtractUInt64(serial96Ext, b)))]
    ELSE IF b[1] = SGTIN198Header THEN
        IF Len(b) # SGTIN198NumBytes THEN [status |-> "error", serial |-> <<>>]
        ELSE IF DecodeASCIIAtPanics(DropBytes(b, serialStartByte), serialOffsetBit)
             THEN [status |-> "panic", serial |-> <<>>]
        ELSE LET r == DecodeASCIIAt(DropBytes(b, serialStartByte), serialOffsetBit)
             IN  [status |-> "ok",
                  serial |-> IF r.extra THEN r.out ELSE SubSeq(r.out, 1, r.nullTerm)]
    ELSE [status |-> "error", serial |-> <<>>]

\* SplitIIR dividing by ten times maxItems[partition]
SplitIIR_Mut(iir, partition) ==
    LET indicator == GoDiv(iir, MaxItems[partition + 1] * 10)
    IN  [indicator |-> indicator,
         itemRef |-> IF partition > 0
                     THEN iir - (indicator * MaxItems[partition + 1] * 10)
                     ELSE 0]

\* indicator and item reference out of the indicator+item-reference field
SplitIIR(iir, partition) ==
    LET indicator == GoDiv(iir, MaxItems[partition + 1])
    IN  [indicator |-> indicator,
         itemRef |-> IF partition > 0
                     THEN iir - (indicator * MaxItems[partition + 1] * 10)
                     ELSE 0]

\* [status, sgtin]: status is "ok", "error" (err # nil) or "panic"
DecodeSGTIN(b) ==
    IF Len(b) = 0 THEN [status |-> "error", sgtin |-> ZeroSGTIN]
    ELSE LET ser == DecodeSerial(b)
         IN  IF ser.status # "ok" THEN [status |-> ser.status, sgtin |-> ZeroSGTIN]
             ELSE IF ExtractUInt64Panics(filterExt, b) \/ ExtractUInt64Panics(partitionExt, b)
                  THEN [status |-> "panic", sgtin |-> ZeroSGTIN]
             ELSE LET filter    == WToInt(ExtractUInt64(filterExt, b))
                      partition == WToInt(ExtractUInt64(partitionExt, b))
                  IN  IF partition < 0 \/ partition > 6
                      THEN [status |-> "error", sgtin |-> ZeroSGTIN]
                      ELSE IF ExtractUInt64Panics(CompanyExt[partition + 1], b)
                              \/ ExtractUInt64Panics(IirExt[partition + 1], b)
                           THEN [status |-> "panic", sgtin |-> ZeroSGTIN]
                      ELSE LET companyPrefix == SPos(ExtractUInt64(CompanyExt[partition + 1], b))
                               iir   == WToInt(ExtractUInt64(IirExt[partition + 1], b))
                               split == SplitIIR(iir, partition)
                           IN  [status |-> "ok",
                                sgtin |-> [filter |-> filter, partition |-> partition,
                                           companyPrefix |-> companyPrefix,
                                           indicator |-> split.indicator,
                                           itemRef |-> split.itemRef,
                                           serial |-> ser.serial]]


(***************************************************************************)
(* package bittag: the Decoder's tagging entity                            *)
(***************************************************************************)
\* the class [-a-z0-9] of authorityRegex
AuthorityClass == {45} \cup (48..57) \cup (97..122)

\* the bound of the repetitions {1,63} of authorityRegex
AuthorityRepeat == 63

\* len(authority) > 255 is refused
AuthorityMaxLen == 255

\* One step of the automaton of (\.[-a-z0-9]{1,63}|[-a-z0-9]{1,63})* on the
\* character c.  Its states: 0 after the leading [a-z], -1 after the "." of the
\* first alternative, k in 1..63 after k characters of a repetition.  Every
\* state but -1 is also the end of a round of the star.
AuthorityStep(st, c) ==
    LET atEnd == st \cap (0..AuthorityRepeat) # {}
    IN  (IF c = 46 /\ atEnd THEN {-1} ELSE {})
        \cup (IF c \in AuthorityClass /\ (atEnd \/ -1 \in st) THEN {1} ELSE {})
        \cup (IF c \in AuthorityClass
              THEN {k + 1 : k \in st \cap (1..(AuthorityRepeat - 1))} ELSE {})

RECURSIVE AuthorityRun(_, _, _)
AuthorityRun(str, i, st) ==
    IF st = {} THEN {}
    ELSE IF i > Len(str) THEN st
    ELSE AuthorityRun(str, i + 1, AuthorityStep(st, str[i]))

\* authorityRegex.MatchString: ^[a-z](\.[-a-z0-9]{1,63}|[-a-z0-9]{1,63})*$
authorityRegex(str) ==
    /\ Len(str) >= 1
    /\ str[1] \in 97..122
    /\ AuthorityRun(str, 2, {0}) \cap (0..AuthorityRepeat) # {}

DaysIn(month, year) ==
    IF month = 2
    THEN IF year % 4 = 0 /\ (year % 100 # 0 \/ year % 400 = 0) THEN 29 ELSE 28
    ELSE IF month \in {4, 6, 9, 11} THEN 30 ELSE 31

\* time.Parse("2006-01-02", date) returns an error: the date is not four
\* digits, "-", two digits, "-", two digits, or names no day of the calendar
TimeParseFails(date) ==
    \/ Len(date) # 10
    \/ \E i \in {1, 2, 3, 4, 6, 7, 9, 10} : date[i] \notin 48..57
    \/ date[5] # 45
    \/ date[8] # 45
    \/ LET num(i, n) == IF n = 2 THEN 10 * (date[i] - 48) + (date[i + 1] - 48)
                        ELSE 1000 * (date[i] - 48) + 100 * (date[i + 1] - 48)
                             + 10 * (date[i + 2] - 48) + (date[i + 3] - 48)
       IN  \/ num(6, 2) < 1
           \/ num(6, 2) > 12
           \/ num(9, 2) < 1
           \/ num(9, 2) > DaysIn(num(6, 2), num(1, 4))

\* the zero value Decoder{}
ZeroDecoder == [uriPrefix |-> <<>>, exp |-> ZeroExploder]

\* the Decoder after SetTaggingEntity(authority, date), with the error
SetTaggingEntity(btd, authority, date) ==
    IF authority = <<>> THEN [dec |-> btd, err |-> "error"]
    ELSE IF date = <<>> THEN [dec |-> btd, err |-> "error"]
    ELSE IF Len(authority) > AuthorityMaxLen \/ ~authorityRegex(authority)
    THEN [dec |-> btd, err |-> "error"]
    ELSE IF TimeParseFails(date) THEN [dec |-> btd, err |-> "error"]
    ELSE [dec |-> [uriPrefix |-> <<116, 97, 103, 58>> \o authority \o <<44>> \o date,
                   exp |-> btd.exp],
          err |-> "nil"]

NewDecoder(authority, date, widths) ==
    LET set == SetTaggingEntity(ZeroDecoder, authority, date)
        d   == NewBitExploder(widths)
    IN  IF set.err # "nil" THEN [dec |-> set.dec, err |-> set.err]
        ELSE IF d.err # "nil" THEN [dec |-> set.dec, err |-> d.err]
        ELSE [dec |-> [uriPrefix |-> set.dec.uriPrefix, exp |-> d.exp], err |-> "nil"]

\* one field of the BitTag: fields of at most 8 bytes are copied to the end of
\* a zeroed 8-byte buffer and read as a uint64, longer ones go through
\* new(big.Int).SetBytes; only the low 8 bytes are kept here
FieldValue_Mut(field) ==
    IF Len(field) <= 8
    THEN [big |-> FALSE,
          val |-> Uint64([k \in 1..(8 - Len(field)) |-> 0] \o field)]
    ELSE [big |-> TRUE,
          val |-> Uint64(SubSeq(field, Len(field) - 7, Len(field)))]

\* one field of the BitTag: fields of at most 8 bytes are copied to the end of
\* a zeroed 8-byte buffer and read as a uint64, longer ones go through
\* new(big.Int).SetBytes
FieldValue(field) ==
    IF Len(field) <= 8
    THEN [big |-> FALSE,
          val |-> Uint64([k \in 1..(8 - Len(field)) |-> 0] \o field)]
    ELSE [big |-> TRUE, val |-> Uint64Prefix(field, Len(field))]

\* Decoder.Decode(data): the BitTag, an error, or the panic of Explode
Decode(btd, data) ==
    IF Len(data) * 8 < BitLength(btd.exp)
    THEN [status |-> "error", uriPrefix |-> <<>>, fields |-> <<>>]
    ELSE LET r == Explode(btd.exp, data)
         IN  IF r.status # "ok"
             THEN [status |-> r.status, uriPrefix |-> <<>>, fields |-> <<>>]
             ELSE [status    |-> "ok",
                   uriPrefix |-> btd.uriPrefix,
                   fields    |-> [i \in 1..NumFields(btd.exp) |->
                                     FieldValue(r.fields[i])]]

\* strings.Join(strs, ".") from element i on
RECURSIVE JoinDotsFrom(_, _)
JoinDotsFrom(strs, i) ==
    IF i > Len(strs) THEN <<>>
    ELSE IF i = Len(strs) THEN strs[i]
    ELSE strs[i] \o <<46>> \o JoinDotsFrom(strs, i + 1)

\* BitTag.String(): the fields in %d, joined by "."
BitTagString(bt) ==
    IF Len(bt.fields) = 0 THEN <<>>
    ELSE JoinDotsFrom([i \in 1..Len(bt.fields) |-> FmtD(0, SPos(bt.fields[i].val))], 1)

\* BitTag.URI(): "%s:%s" of the prefix and the tag
BitTagURI(bt) == bt.uriPrefix \o <<58>> \o BitTagString(bt)

\* strings.HasPrefix
HasPrefix(s, prefix) ==
    Len(s) >= Len(prefix) /\ SubSeq(s, 1, Len(prefix)) = prefix

\* strings.Index(s, ".") from position i on, 0 when there is none
RECURSIVE IndexDot(_, _)
IndexDot(s, i) ==
    IF i > Len(s) THEN 0
    ELSE IF s[i] = 46 THEN i
    ELSE IndexDot(s, i + 1)

\* strings.SplitN(s, ".", n) for n >= 0: nil for n = 0, otherwise at most n
\* pieces, the last of them the unsplit remainder
RECURSIVE SplitN(_, _)
SplitN(s, n) ==
    IF n = 0 THEN <<>>
    ELSE IF n = 1 \/ IndexDot(s, 1) = 0 THEN <<s>>
    ELSE <<SubSeq(s, 1, IndexDot(s, 1) - 1)>>
             \o SplitN(SubSeq(s, IndexDot(s, 1) + 1, Len(s)), n - 1)

\* fieldsRegex.MatchString: ^\d(\d*)$
fieldsRegex(str) ==
    Len(str) >= 1 /\ \A i \in 1..Len(str) : str[i] \in 48..57

\* Decoder.Fields(uri): the fields of the URI, or an error
Fields(btd, uri) ==
    IF ~HasPrefix(uri, btd.uriPrefix \o <<58>>)
    THEN [status |-> "error", val |-> <<>>]
    ELSE LET fields == SplitN(SubSeq(uri, Len(btd.uriPrefix) + 2, Len(uri)),
                              NumFields(btd.exp))
         IN  IF Len(fields) < NumFields(btd.exp)
             THEN [status |-> "error", val |-> <<>>]
             ELSE IF \E i \in 1..Len(fields) : ~fieldsRegex(fields[i])
             THEN [status |-> "error", val |-> <<>>]
             ELSE [status |-> "ok", val |-> fields]

\* Decoder.Field(URI, idx): fields[idx] is read whenever idx <= len(fields),
\* and the read panics for an index outside the slice
Field(btd, uri, idx) ==
    LET f == Fields(btd, uri)
    IN  IF f.status # "ok" THEN [status |-> "error", val |-> <<>>]
        ELSE IF idx > Len(f.val) THEN [status |-> "error", val |-> <<>>]
        ELSE IF idx < 0 \/ idx >= Len(f.val) THEN [status |-> "panic", val |-> <<>>]
        ELSE [status |-> "ok", val |-> <<f.val[idx + 1]>>]

(***************************************************************************)
(* Extractor scenario: New(start, len), then Extract(src).                 *)
(***************************************************************************)
RECURSIVE SeqsUpTo(_, _)
SeqsUpTo(S, n) ==
    IF n = 0 THEN {<<>>}
    ELSE LET shorter == SeqsUpTo(S, n - 1)
         IN  shorter \cup {Append(s, b) : s \in {t \in shorter : Len(t) = n - 1}, b \in S}

NoDest == [panic |-> FALSE, val |-> <<>>]

NoDecode == [status |-> "none", sgtin |-> ZeroSGTIN]

NoText == [done |-> FALSE, uriA |-> <<>>, gtinA |-> <<>>, uriB |-> <<>>, gtinB |-> <<>>]

DecodeIdle == dA = <<>> /\ dB = <<>> /\ rA = NoDecode /\ rB = NoDecode /\ dText = NoText

NoNew == [done |-> FALSE, sgtin |-> ZeroSGTIN, err |-> "none"]

NoOut == [done |-> FALSE, checkDigit |-> 0, gtin |-> <<>>, uri |-> <<>>]

NoTrip == [done |-> FALSE, dec |-> NoDecode]

SgtinIdle ==
    /\ sArgs = ZeroSGTIN /\ sNew = NoNew /\ sCan = "none"
    /\ sOut = NoOut /\ sTrip96 = NoTrip /\ sTrip198 = NoTrip

ExtractIdle ==
    /\ xStart = 0 /\ xLen = 0 /\ xSrc = <<>>
    /\ xBE = ZeroBE /\ xDest = NoDest /\ xPc = "idle"

NoHist ==
    [calls |-> 0, widths |-> <<>>, err |-> "none", allNil |-> TRUE,
     prev |-> ZeroExploder]

NoExplode == [status |-> "none", fields |-> <<>>, data |-> <<>>]

NoReader == [built |-> FALSE, exp |-> ZeroExploder, field |-> 0, data |-> <<>>]

NoCall ==
    [op |-> "none", before |-> [field |-> 0, data |-> <<>>], arg |-> <<>>,
     out |-> <<>>, n |-> 0, err |-> "none",
     shortAt |-> -1, afterShort |-> -1, reads |-> 0, seen |-> <<>>]

FieldsIdle ==
    /\ fExp = ZeroExploder /\ fHist = NoHist /\ fOut = NoExplode
    /\ fRd = NoReader /\ fLast = NoCall

NoASCII == [status |-> "none", out |-> <<>>, nullTerm |-> 0, extra |-> FALSE]

AsciiIdle == tData = <<>> /\ tOffset = 0 /\ tDec = NoASCII

NoEscape == [done |-> FALSE, val |-> <<>>]

EscapeIdle == gStr = <<>> /\ gEsc = NoEscape /\ gBack = NoEscape

EntityIdle == nAuth = <<>> /\ nDate = <<>> /\ nDec = ZeroDecoder /\ nErr = "none"

CharsetIdle == cStr = <<>> /\ cAI = "none" /\ cCP = "none"

NoTag == [status |-> "none", uriPrefix |-> <<>>, fields |-> <<>>]

NoStrings == [status |-> "none", val |-> <<>>]

TagIdle ==
    /\ bDec = ZeroDecoder /\ bWidths = <<>> /\ bCalls = 0
    /\ bData = <<>> /\ bTag = NoTag
    /\ bUri = <<>> /\ bIdx = 0 /\ bFields = NoStrings /\ bField = NoStrings

\* bufferPool before any Get: bufs[id] is the content of scratch buffer id,
\* free the ids the pool holds
NoPool == [bufs |-> <<>>, free |-> {}]

PoolIdle == pPool = NoPool /\ pCalls = <<>>

NoBounds == [status |-> "none", before |-> ZeroBE64]

BoundsIdle == vStart = SInt(0) /\ vLen = SInt(0) /\ vBE = ZeroBE64 /\ vRes = NoBounds

LateIdle == CharsetIdle /\ TagIdle /\ PoolIdle /\ BoundsIdle

MoreIdle == FieldsIdle /\ AsciiIdle /\ EscapeIdle /\ EntityIdle /\ LateIdle

InitExtract ==
    /\ DecodeIdle
    /\ SgtinIdle
    /\ MoreIdle
    /\ xStart \in -1..MaxStart
    /\ xLen \in 0..MaxLen
    /\ xSrc \in SeqsUpTo(ByteVals, MaxSrcLen)
    /\ xBE = ZeroBE
    /\ xDest = NoDest
    /\ xPc = "new"

DoNew ==
    /\ xPc = "new"
    /\ IF SetBoundsPanics(xStart, xLen)
       THEN xPc' = "panic" /\ xBE' = xBE
       ELSE xPc' = "built" /\ xBE' = New(xStart, xLen)
    /\ UNCHANGED <<xStart, xLen, xSrc, xDest, decVars, sgVars, moreVars>>

DoExtract ==
    /\ xPc = "built"
    /\ xPc' = "done"
    /\ xDest' = IF ExtractToPanics(xBE, Buffer(xBE), xSrc)
                THEN [panic |-> TRUE, val |-> <<>>]
                ELSE [panic |-> FALSE, val |-> Extract(xBE, xSrc)]
    /\ UNCHANGED <<xStart, xLen, xSrc, xBE, decVars, sgVars, moreVars>>

NextExtract == DoNew \/ DoExtract

SpecExtract == InitExtract /\ [][NextExtract]_vars

(***************************************************************************)
(* Reference reading of a buffer as a bit string: bit 0 is the most        *)
(* significant bit of byte 0.                                              *)
(***************************************************************************)
BitAt(buf, n) == (buf[(n \div 8) + 1] \div Pow(2, 7 - (n % 8))) % 2

\* bit p (0 = most significant) of an output of nBytes bytes holding the
\* len bits that start at source bit start, right-aligned
RefOutBit(buf, start, len, nBytes, p) ==
    LET pad == nBytes * 8 - len
    IN  IF p < pad THEN 0 ELSE BitAt(buf, start + p - pad)

CeilDiv8(n) == (n + 7) \div 8

\* C1: for start >= 0, length >= 1 and a source of at least
\* ceil((start+length)/8) bytes, Extract returns ceil(length/8) bytes whose
\* bits are the source bits [start, start+length) right-aligned, the unused
\* high bits of the first byte being zero, in each alignment case.
C1_ExtractMatchesReference ==
    (xPc = "done" /\ Len(xSrc) >= CeilDiv8(xStart + xLen)) =>
        /\ ~xDest.panic
        /\ Len(xDest.val) = CeilDiv8(xLen)
        /\ \A p \in 0..(8 * CeilDiv8(xLen) - 1) :
              BitAt(xDest.val, p) = RefOutBit(xSrc, xStart, xLen, CeilDiv8(xLen), p)

\* reachable: a BiasedToNextByte extraction over three source bytes that
\* yields a non-zero two-byte value
C1_Witness ==
    /\ xPc = "done"
    /\ xBE.bias = srcBiasNext
    /\ xBE.srcLen = 3
    /\ ~xDest.panic
    /\ Len(xDest.val) = 2
    /\ xDest.val[1] # 0

(***************************************************************************)
(* Building tag buffers bit by bit, for the inputs of the scenarios.       *)
(***************************************************************************)
IntBits(n, width) == WToBits(WFromInt(n), width)

OneBits(width) == [k \in 1..width |-> 1]

ByteOfBits(bits, k) ==
    LET bit(j) == IF 8 * (k - 1) + j <= Len(bits) THEN bits[8 * (k - 1) + j] ELSE 0
    IN  128 * bit(1) + 64 * bit(2) + 32 * bit(3) + 16 * bit(4)
        + 8 * bit(5) + 4 * bit(6) + 2 * bit(7) + bit(8)

\* the bits as bytes, the last byte padded with zero bits
BitsToBytes(bits) == [k \in 1..((Len(bits) + 7) \div 8) |-> ByteOfBits(bits, k)]

RECURSIVE TextBits(_)
TextBits(str) ==
    IF str = <<>> THEN <<>> ELSE IntBits(Head(str), 7) \o TextBits(Tail(str))

PadNulls(str, n) == str \o [k \in 1..(n - Len(str)) |-> 0]

CompanyWidth == <<40, 37, 34, 30, 27, 24, 20, 20>>

IirWidth == <<4, 7, 10, 14, 17, 20, 24, 24>>

HeadBits(header, filter, partition, cpBits, iirBits) ==
    IntBits(header, 8) \o IntBits(filter, 3) \o IntBits(partition, 3) \o cpBits \o iirBits

Pack96(filter, partition, cpBits, iirBits, serialBits) ==
    BitsToBytes(HeadBits(SGTIN96Header, filter, partition, cpBits, iirBits) \o serialBits)

Pack198(filter, partition, cpBits, iirBits, text) ==
    BitsToBytes(HeadBits(SGTIN198Header, filter, partition, cpBits, iirBits)
                \o TextBits(PadNulls(text, 20)))

(***************************************************************************)
(* Decoding scenario: DecodeSGTIN on an SGTIN-96 buffer and on an          *)
(* SGTIN-198 buffer, then URI() and GTIN() of the two results.             *)
(***************************************************************************)
CpBitsSet(p) ==
    {IntBits(0, CompanyWidth[p + 1]), IntBits(1, CompanyWidth[p + 1]),
     IntBits(888446, CompanyWidth[p + 1]), OneBits(CompanyWidth[p + 1])}

IirBitsSet(p) ==
    LET m == IF p < 7 THEN MaxItems[p + 1] ELSE 1
    IN  {IntBits(v, IirWidth[p + 1]) : v \in {0, m - 1, m, 4 * m + (m \div 2), 10 * m - 1}}
        \cup {OneBits(IirWidth[p + 1])}

\* 38-bit serial numbers: 0, 1, 314159, 193853396487, 2^38 - 1
SerialValues ==
    {<<>>, WFromInt(1), WFromInt(314159), WLit(<<1, 9, 3, 8, 5, 3, 3, 9, 6, 4, 8, 7>>),
     WLit(<<2, 7, 4, 8, 7, 7, 9, 0, 6, 9, 4, 3>>)}

\* SGTIN-198 serial regions (before null padding): "Hello!;1=1;'..*_*../",
\* "AB" NUL "C", "7" DEL, all nulls, "1" NUL NUL "#"
SerialTexts ==
    {<<72, 101, 108, 108, 111, 33, 59, 49, 61, 49, 59, 39, 46, 46, 42, 95, 42, 46, 46, 47>>,
     <<65, 66, 0, 67>>, <<55, 127>>, <<>>, <<49, 0, 0, 35>>}

\* buffers DecodeSGTIN must refuse for their header or length, and oddities
TagA == Pack96(1, 5, IntBits(888446, 24), IntBits(67142, 20), IntBits(314159, 38))

TagB == Pack198(1, 5, IntBits(888446, 24), IntBits(67142, 20), <<65, 66>>)

Malformed ==
    {<<>>, <<SGTIN96Header>>, <<SGTIN198Header>>,
     SubSeq(TagA, 1, 11), TagA \o <<17>>, SubSeq(TagB, 1, 12), SubSeq(TagB, 1, 24),
     TagB \o <<0>>, TagA \o SubSeq(TagB, 1, 13), <<226>> \o Tail(TagA),
     <<0>> \o Tail(TagB)}

InitDecode ==
    /\ ExtractIdle
    /\ SgtinIdle
    /\ MoreIdle
    /\ \/ \E p \in 0..7, f \in {0, 3, 7} :
          \E cp \in CpBitsSet(p), iir \in IirBitsSet(p) :
             \/ \E ser \in SerialValues :
                   /\ dA = Pack96(f, p, cp, iir, WToBits(ser, 38))
                   /\ dB = Pack198(1, p, cp, iir, DigitChars(ser))
             \/ \E txt \in SerialTexts :
                   /\ dA = Pack96(f, p, cp, iir, IntBits(1, 38))
                   /\ dB = Pack198(f, p, cp, iir, txt)
       \/ dA \in Malformed /\ dB \in Malformed
    /\ rA = NoDecode
    /\ rB = NoDecode
    /\ dText = NoText

DecodeA ==
    /\ rA.status = "none"
    /\ rA' = DecodeSGTIN(dA)
    /\ UNCHANGED <<dA, dB, rB, dText, beVars, sgVars, moreVars>>

DecodeB ==
    /\ rB.status = "none"
    /\ rB' = DecodeSGTIN(dB)
    /\ UNCHANGED <<dA, dB, rA, dText, beVars, sgVars, moreVars>>

RenderDecoded ==
    /\ rA.status = "ok"
    /\ rB.status = "ok"
    /\ ~dText.done
    /\ dText' = [done |-> TRUE,
                 uriA |-> URI(rA.sgtin), gtinA |-> GTIN(rA.sgtin),
                 uriB |-> URI(rB.sgtin), gtinB |-> GTIN(rB.sgtin)]
    /\ UNCHANGED <<dA, dB, rA, rB, beVars, sgVars, moreVars>>

NextDecode == DecodeA \/ DecodeB \/ RenderDecoded

SpecDecode == InitDecode /\ [][NextDecode]_vars

(***************************************************************************)
(* Reference reading of the SGTIN layout, bit by bit.                      *)
(***************************************************************************)
RECURSIVE RefValue(_, _, _)
RefValue(buf, start, len) ==
    IF len = 0 THEN 0
    ELSE 2 * RefValue(buf, start, len - 1) + BitAt(buf, start + len - 1)

RECURSIVE RefWide(_, _, _)
RefWide(buf, start, len) ==
    IF len = 0 THEN <<>>
    ELSE WMulAdd(RefWide(buf, start, len - 1), 2, BitAt(buf, start + len - 1))

RefPartition(buf) == RefValue(buf, 11, 3)

RefIIR(buf) ==
    RefValue(buf, 58 - IirWidth[RefPartition(buf) + 1], IirWidth[RefPartition(buf) + 1])

C2_SplitOf(r, buf) ==
    r.status = "ok" =>
        /\ r.sgtin.indicator = RefIIR(buf) \div Pow(10, RefPartition(buf))
        /\ r.sgtin.itemRef = RefIIR(buf) % Pow(10, RefPartition(buf))

\* C2: for every input DecodeSGTIN accepts, the decoded indicator is
\* iir div 10^partition and the decoded item reference is iir mod 10^partition,
\* iir being the value of the partition-selected indicator+item-reference bits.
C2_IndicatorItemRefSplit == C2_SplitOf(rA, dA) /\ C2_SplitOf(rB, dB)

RefRefused(buf) ==
    \/ Len(buf) = 0
    \/ buf[1] \notin {48, 54}
    \/ buf[1] = 48 /\ Len(buf) # 12
    \/ buf[1] = 54 /\ Len(buf) # 25
    \/ RefPartition(buf) > 6

C3_ErrorsOf(r, buf) ==
    r.status # "none" =>
        /\ r.status \in {"ok", "error"}
        /\ r.status = "error" <=> RefRefused(buf)

\* C3: DecodeSGTIN returns an error exactly for an empty buffer, a header
\* other than 0x30 and 0x36, a length other than 12 (0x30) or 25 (0x36), or a
\* partition field above 6; every other buffer decodes, whatever its filter,
\* company prefix, indicator/item reference and serial bits are.
C3_DecodeErrors == C3_ErrorsOf(rA, dA) /\ C3_ErrorsOf(rB, dB)

\* reachable: a 12-byte SGTIN-96 and a 25-byte SGTIN-198 with legal headers,
\* both refused for their partition 7
C3_Witness ==
    /\ rA.status = "error" /\ Len(dA) = 12 /\ dA[1] = 48
    /\ rB.status = "error" /\ Len(dB) = 25 /\ dB[1] = 54

C10_Related(a, b) ==
    /\ Len(a) = 12 /\ a[1] = 48
    /\ Len(b) = 25 /\ b[1] = 54
    /\ \A k \in 11..57 : BitAt(a, k) = BitAt(b, k)
    /\ LET txt == DigitChars(RefWide(a, 58, 38))
       IN  \A i \in 0..19 :
              RefValue(b, 58 + 7 * i, 7) = IF i < Len(txt) THEN txt[i + 1] ELSE 0

\* C10: an SGTIN-96 buffer and an SGTIN-198 buffer with the same partition,
\* company prefix and indicator/item-reference bits, the SGTIN-198 serial
\* region being the decimal text of the SGTIN-96 serial followed by nulls,
\* decode to SGTINs with the same URI() and the same GTIN().
C10_EncodingIndependentURI ==
    (dText.done /\ C10_Related(dA, dB)) =>
        /\ dText.uriA = dText.uriB
        /\ dText.gtinA = dText.gtinB

\* reachable: such a pair with a 12-digit serial, different filters and a
\* non-zero company prefix
C10_Witness ==
    /\ dText.done
    /\ C10_Related(dA, dB)
    /\ Len(rA.sgtin.serial) = 12
    /\ rA.sgtin.filter # rB.sgtin.filter
    /\ rA.sgtin.companyPrefix.mag # <<>>
    /\ Len(dText.uriA) > 17 + 12

(***************************************************************************)
(* The binary packing of an SGTIN, as the EPC layout lays it out: header,  *)
(* filter, partition, company prefix, indicator+item reference, serial.    *)
(***************************************************************************)
RECURSIVE ParseDec(_, _)
ParseDec(str, k) ==
    IF k = 0 THEN <<>> ELSE WMulAdd(ParseDec(str, k - 1), 10, str[k] - 48)

IirOf(sg) == sg.indicator * MaxItems[sg.partition + 1] + sg.itemRef

Encode96(sg) ==
    Pack96(sg.filter, sg.partition,
           WToBits(sg.companyPrefix.mag, CompanyWidth[sg.partition + 1]),
           IntBits(IirOf(sg), IirWidth[sg.partition + 1]),
           WToBits(ParseDec(sg.serial, Len(sg.serial)), 38))

Encode198(sg) ==
    Pack198(sg.filter, sg.partition,
            WToBits(sg.companyPrefix.mag, CompanyWidth[sg.partition + 1]),
            IntBits(IirOf(sg), IirWidth[sg.partition + 1]),
            sg.serial)

(***************************************************************************)
(* SGTIN scenario: NewSGTIN(...), then CanSGTIN96(), checkDigit(), GTIN(), *)
(* URI() and the decoding of the SGTIN's binary packings.                  *)
(***************************************************************************)
PowerOfTen(n) == SPos([k \in 1..(n + 1) |-> IF k = n + 1 THEN 1 ELSE 0])

CpValues(p) ==
    IF p \in 0..6
    THEN {SInt(-1), SInt(0), SInt(1), SInt(614141), SInt(208075),
          SPos(MaxPrefix[p + 1]), PowerOfTen(12 - p)}
    ELSE {SInt(1)}

ItemValues(p) ==
    IF p \in 0..6
    THEN {-1, 0, MaxItems[p + 1] - 1, MaxItems[p + 1], 67142 % MaxItems[p + 1]}
    ELSE {0}

\* "", "0", "1", "10", "00", "01", " 0", "A1", "1A", "+1", "-1",
\* "274877906943", "274877906944", "0274877906943", "999999999999",
\* 20 digits, 21 digits, "A" NUL, NUL "A", NUL, NUL NUL, "#", "A" DEL,
\* NUL DEL, "#" DEL, 0xC8, "Hello!;1=1;'..*_*../", "a%b/"
SerialArgs ==
    {<<>>, <<48>>, <<49>>, <<49, 48>>, <<48, 48>>, <<48, 49>>, <<32, 48>>,
     <<65, 49>>, <<49, 65>>, <<43, 49>>, <<45, 49>>,
     <<50, 55, 52, 56, 55, 55, 57, 48, 54, 57, 52, 51>>,
     <<50, 55, 52, 56, 55, 55, 57, 48, 54, 57, 52, 52>>,
     <<48, 50, 55, 52, 56, 55, 55, 57, 48, 54, 57, 52, 51>>,
     <<57, 57, 57, 57, 57, 57, 57, 57, 57, 57, 57, 57>>,
     [k \in 1..20 |-> 48 + (k % 10)], [k \in 1..21 |-> 48 + (k % 10)],
     <<65, 0>>, <<0, 65>>, <<0>>, <<0, 0>>, <<35>>, <<65, 127>>,
     <<0, 127>>, <<35, 127>>, <<200>>,
     <<72, 101, 108, 108, 111, 33, 59, 49, 61, 49, 59, 39, 46, 46, 42, 95, 42, 46, 46, 47>>,
     <<97, 37, 98, 47>>}

MkArgs(f, p, ind, cp, item, ser) ==
    [filter |-> f, partition |-> p, companyPrefix |-> cp,
     indicator |-> ind, itemRef |-> item, serial |-> ser]

InitSGTIN ==
    /\ ExtractIdle
    /\ DecodeIdle
    /\ MoreIdle
    /\ \/ \E f \in -1..9, p \in {0, 3}, ind \in {0, 9, 10}, ser \in {<<49>>, <<>>} :
             sArgs = MkArgs(f, p, ind, SInt(1), 0, ser)
       \/ \E p \in -1..7, ind \in {-1, 0, 1, 9, 10} :
          \E cp \in CpValues(p), item \in ItemValues(p), ser \in {<<49>>, <<>>, <<65, 127>>} :
             sArgs = MkArgs(1, p, ind, cp, item, ser)
       \/ \E f \in {0, 7}, p \in {0, 5}, ind \in {0, 4}, ser \in SerialArgs :
             sArgs = MkArgs(f, p, ind, SInt(888446), 67142 % MaxItems[p + 1], ser)
    /\ sNew = NoNew
    /\ sCan = "none"
    /\ sOut = NoOut
    /\ sTrip96 = NoTrip
    /\ sTrip198 = NoTrip

DoNewSGTIN ==
    /\ ~sNew.done
    /\ LET r == NewSGTIN(sArgs.filter, sArgs.partition, sArgs.indicator,
                         sArgs.companyPrefix, sArgs.itemRef, sArgs.serial)
       IN  sNew' = [done |-> TRUE, sgtin |-> r.sgtin, err |-> r.err]
    /\ UNCHANGED <<sArgs, sCan, sOut, sTrip96, sTrip198, beVars, decVars, moreVars>>

DoCanSGTIN96 ==
    /\ sNew.done
    /\ sCan = "none"
    /\ sCan' = CanSGTIN96(sNew.sgtin)
    /\ UNCHANGED <<sArgs, sNew, sOut, sTrip96, sTrip198, beVars, decVars, moreVars>>

DoRender ==
    /\ sNew.err = "nil"
    /\ ~sOut.done
    /\ sOut' = [done |-> TRUE, checkDigit |-> checkDigit(sNew.sgtin),
                gtin |-> GTIN(sNew.sgtin), uri |-> URI(sNew.sgtin)]
    /\ UNCHANGED <<sArgs, sNew, sCan, sTrip96, sTrip198, beVars, decVars, moreVars>>

DoRoundTrip96 ==
    /\ sNew.err = "nil"
    /\ sCan = "nil"
    /\ ~sTrip96.done
    /\ sTrip96' = [done |-> TRUE, dec |-> DecodeSGTIN(Encode96(sNew.sgtin))]
    /\ UNCHANGED <<sArgs, sNew, sCan, sOut, sTrip198, beVars, decVars, moreVars>>

DoRoundTrip198 ==
    /\ sNew.err = "nil"
    /\ ~sTrip198.done
    /\ sTrip198' = [done |-> TRUE, dec |-> DecodeSGTIN(Encode198(sNew.sgtin))]
    /\ UNCHANGED <<sArgs, sNew, sCan, sOut, sTrip96, beVars, decVars, moreVars>>

NextSGTIN == DoNewSGTIN \/ DoCanSGTIN96 \/ DoRender \/ DoRoundTrip96 \/ DoRoundTrip198

SpecSGTIN == InitSGTIN /\ [][NextSGTIN]_vars

(***************************************************************************)
(* Reference reading of an SGTIN as the 13 digits of its GTIN (without     *)
(* check digit): position 1 is the ones place.                             *)
(***************************************************************************)
Digit13(sg, j) ==
    IF j <= sg.partition THEN (sg.itemRef \div Pow(10, j - 1)) % 10
    ELSE IF j <= 12
         THEN IF j - sg.partition <= Len(sg.companyPrefix.mag)
              THEN sg.companyPrefix.mag[j - sg.partition] ELSE 0
    ELSE sg.indicator

RECURSIVE RefWeightedSum(_, _)
RefWeightedSum(sg, j) ==
    IF j = 0 THEN 0
    ELSE Digit13(sg, j) * (IF j % 2 = 1 THEN 3 ELSE 1) + RefWeightedSum(sg, j - 1)

RefCheckDigit(sg) == (10 - (RefWeightedSum(sg, 13) % 10)) % 10

RECURSIVE RefNumber(_, _, _)
RefNumber(sg, lo, hi) ==
    IF hi < lo THEN 0 ELSE Digit13(sg, lo) + 10 * RefNumber(sg, lo + 1, hi)

\* the same 13 digits split by partition q
Resplit(sg, q) ==
    LET top == {j \in (q + 1)..12 : Digit13(sg, j) # 0}
        n   == IF top = {} THEN q ELSE CHOOSE j \in top : \A i \in top : i <= j
    IN  [filter |-> sg.filter, partition |-> q,
         companyPrefix |-> SPos([k \in 1..(n - q) |-> Digit13(sg, q + k)]),
         indicator |-> sg.indicator,
         itemRef |-> RefNumber(sg, 1, q),
         serial |-> sg.serial]

\* C4: for an SGTIN that passes ValidateRanges, checkDigit() is the GS1 mod-10
\* check digit of its 13 digits, weight 3 at odd and 1 at even positions from the
\* ones place, and it is the same whichever partition splits those 13 digits.
C4_CheckDigitIsGS1 ==
    sOut.done =>
        /\ sOut.checkDigit = RefCheckDigit(sNew.sgtin)
        /\ \A q \in 0..6 : checkDigit(Resplit(sNew.sgtin, q)) = sOut.checkDigit

\* reachable: a valid SGTIN with non-zero indicator, company prefix and item
\* reference whose check digit has been computed
C4_Witness ==
    /\ sOut.done
    /\ sNew.sgtin.indicator = 9
    /\ sNew.sgtin.partition = 4
    /\ sNew.sgtin.itemRef = 7142
    /\ sNew.sgtin.companyPrefix = SInt(614141)

\* C5: every SGTIN that passes ValidateRanges comes back from DecodeSGTIN of
\* its SGTIN-96 or SGTIN-198 packing with the same filter, partition, company
\* prefix, indicator, item reference and serial.
C5_DecodeEncodeRoundTrip ==
    /\ sTrip96.done =>
          sTrip96.dec.status = "ok" /\ sTrip96.dec.sgtin = sNew.sgtin
    /\ sTrip198.done =>
          sTrip198.dec.status = "ok" /\ sTrip198.dec.sgtin = sNew.sgtin

(***************************************************************************)
(* Reference reading of the range rules.                                   *)
(***************************************************************************)
\* ! " % & ' ( ) * + , - . / 0-9 : ; < = > ? A-Z _ a-z
RefAIChars ==
    {33, 34, 37, 38, 39, 40, 41, 42, 43, 44, 45, 46, 47} \cup (48..57)
    \cup {58, 59, 60, 61, 62, 63} \cup (65..90) \cup {95} \cup (97..122)

RefSerialOk(str) ==
    /\ Len(str) >= 1
    /\ Len(str) <= 20
    /\ \A i \in 1..Len(str) :
          \/ str[i] \in RefAIChars
          \/ str[i] = 0 /\ \A j \in i..Len(str) : str[j] = 0

RefFieldsInRange(sg) ==
    /\ sg.indicator >= 0 /\ sg.indicator <= 9
    /\ sg.partition >= 0 /\ sg.partition <= 6
    /\ sg.itemRef >= 0 /\ sg.itemRef < Pow(10, sg.partition)
    /\ ~sg.companyPrefix.neg
    /\ Len(sg.companyPrefix.mag) <= 12 - sg.partition
    /\ RefSerialOk(sg.serial)

C6_FilterRule(valid) ==
    sNew.done =>
        /\ sNew.sgtin.filter \notin valid => sNew.err = "error"
        /\ (sNew.sgtin.filter \in valid /\ RefFieldsInRange(sNew.sgtin)) => sNew.err = "nil"

C7_RangeRule ==
    (sNew.done /\ IsValid(sNew.sgtin.filter)) =>
        /\ sNew.err = "nil" <=> RefFieldsInRange(sNew.sgtin)
        /\ ~RefFieldsInRange(sNew.sgtin) => sNew.err = "error"

RECURSIVE StripZeros(_)
StripZeros(str) ==
    IF str # <<>> /\ Head(str) = 48 THEN StripZeros(Tail(str)) ELSE str

\* 2^38 - 1 = 274877906943
RefMax38 == <<2, 7, 4, 8, 7, 7, 9, 0, 6, 9, 4, 3>>

RefAbove38Bits(str) ==
    LET t == StripZeros(str)
    IN  \/ Len(t) > 12
        \/ /\ Len(t) = 12
           /\ \E i \in 1..12 :
                 /\ t[i] - 48 > RefMax38[i]
                 /\ \A j \in 1..(i - 1) : t[j] - 48 = RefMax38[j]

RefCannot96(str) ==
    \/ str = <<>>
    \/ \E i \in 1..Len(str) : str[i] \notin 48..57
    \/ RefAbove38Bits(str)
    \/ str[1] = 48 /\ str # <<48>>

\* C8: CanSGTIN96 fails exactly when the serial is empty, has a character that
\* is not a decimal digit, denotes a value above 2^38 - 1, or starts with '0'
\* without being "0".
C8_CanSGTIN96Rule ==
    sCan # "none" => (sCan = "error" <=> RefCannot96(sNew.sgtin.serial))

\* reachable: the serial "274877906944", one above 2^38 - 1, refused
C8_Witness ==
    /\ sCan = "error"
    /\ sNew.sgtin.serial = <<50, 55, 52, 56, 55, 55, 57, 48, 54, 57, 52, 52>>

\* C9: for an SGTIN that passes ValidateRanges, GTIN() is 14 decimal digits:
\* the indicator, the company prefix zero-padded to 12-partition digits, the
\* item reference zero-padded to partition digits, and the check digit.
C9_GTINFormat ==
    sOut.done =>
        /\ Len(sOut.gtin) = 14
        /\ \A i \in 1..13 : sOut.gtin[i] = 48 + Digit13(sNew.sgtin, 14 - i)
        /\ sOut.gtin[14] = 48 + RefCheckDigit(sNew.sgtin)

\* reachable: a GTIN() whose company prefix and item reference both needed
\* zero padding
C9_Witness ==
    /\ sOut.done
    /\ sNew.sgtin.partition = 5
    /\ sNew.sgtin.companyPrefix = SInt(1)
    /\ sNew.sgtin.itemRef = 67142
    /\ sNew.sgtin.indicator = 1
    /\ Len(sOut.gtin) = 14

(***************************************************************************)
(* Fields scenario: NewBitExploder(widths), SetWidths(widths) on it, then  *)
(* either Explode(data), or NewBitReader(data) and calls of Read, Reset    *)
(* and SetData on the reader.  What a constructor returns with an error is *)
(* not used; an exploder whose SetWidths returned an error stays in use.   *)
(***************************************************************************)
MaxReconfigure == 1

WidthLists ==
    {<<>>, <<0>>, <<3>>, <<8>>, <<3, 5>>, <<4, 12>>, <<12, 4, 8>>, <<8, 0>>,
     <<9, -1, 3>>, <<1, 7, 9>>}

FieldData ==
    {<<>>, <<165>>, <<90, 165>>, <<255, 0>>, <<15, 0, 195>>, <<90, 165, 60>>}

\* what the caller's buffer holds before Read
ReadBuffers == {<<>>, <<255>>, <<170, 255>>, <<170, 255, 85>>}

InitFields ==
    /\ ExtractIdle
    /\ LateIdle
    /\ DecodeIdle
    /\ SgtinIdle
    /\ AsciiIdle
    /\ EscapeIdle
    /\ EntityIdle
    /\ FieldsIdle

notFields == <<beVars, decVars, sgVars, txtVars, entVars, lateVars>>

DoNewBitExploder ==
    /\ fHist.calls = 0
    /\ \E w \in WidthLists :
          LET r == NewBitExploder(w)
          IN  /\ fExp' = r.exp
              /\ fHist' = [calls |-> 1, widths |-> w, err |-> r.err,
                           allNil |-> r.err = "nil", prev |-> ZeroExploder]
    /\ UNCHANGED <<fOut, fRd, fLast, notFields>>

\* the exploder is in use: it was built without error
ExploderInUse == fHist.calls >= 1 /\ (fHist.calls = 1 => fHist.err = "nil")

DoSetWidths ==
    /\ ExploderInUse
    /\ fHist.calls <= MaxReconfigure
    /\ fOut.status = "none"
    /\ ~fRd.built
    /\ \E w \in WidthLists :
          LET r == SetWidths(fExp, w)
          IN  /\ fExp' = r.exp
              /\ fHist' = [calls |-> fHist.calls + 1, widths |-> w, err |-> r.err,
                           allNil |-> fHist.allNil /\ r.err = "nil", prev |-> fExp]
    /\ UNCHANGED <<fOut, fRd, fLast, notFields>>

DoExplode ==
    /\ ExploderInUse
    /\ fOut.status = "none"
    /\ ~fRd.built
    /\ \E data \in FieldData :
          LET r == Explode(fExp, data)
          IN  fOut' = [status |-> r.status, fields |-> r.fields, data |-> data]
    /\ UNCHANGED <<fExp, fHist, fRd, fLast, notFields>>

DoNewBitReader ==
    /\ ExploderInUse
    /\ fOut.status = "none"
    /\ ~fRd.built
    /\ \E data \in FieldData :
          LET r == NewBitReader(fExp, data)
          IN  /\ r.err = "nil"
              /\ fRd' = [built |-> TRUE, exp |-> r.r.exp, field |-> r.r.field,
                         data |-> r.r.data]
              /\ fLast' = [NoCall EXCEPT !.op = "NewBitReader", !.arg = data,
                                        !.err = r.err]
    /\ UNCHANGED <<fExp, fHist, fOut, notFields>>

\* the reader as the methods see it
TheReader == [exp |-> fRd.exp, field |-> fRd.field, data |-> fRd.data]

Before == [field |-> fRd.field, data |-> fRd.data]

DoReset ==
    /\ fRd.built
    /\ fLast.err # "panic"
    /\ LET r == Reset(TheReader)
       IN  /\ fRd' = [built |-> TRUE, exp |-> r.exp, field |-> r.field, data |-> r.data]
           /\ fLast' = [op |-> "Reset", before |-> Before, arg |-> <<>>, out |-> <<>>,
                        n |-> 0, err |-> "none", shortAt |-> -1,
                        afterShort |-> fLast.shortAt, reads |-> 0, seen |-> fLast.seen]
    /\ UNCHANGED <<fExp, fHist, fOut, notFields>>

DoSetData ==
    /\ fRd.built
    /\ fLast.err # "panic"
    /\ \E data \in FieldData :
          LET r == SetData(TheReader, data)
          IN  /\ fRd' = [built |-> TRUE, exp |-> r.r.exp, field |-> r.r.field,
                         data |-> r.r.data]
              /\ fLast' = [op |-> "SetData", before |-> Before, arg |-> data,
                           out |-> <<>>, n |-> 0, err |-> r.err, shortAt |-> -1,
                           afterShort |-> fLast.shortAt,
                           reads |-> IF r.err = "nil" THEN 0 ELSE fLast.reads,
                           seen |-> IF r.err = "nil" THEN <<>> ELSE fLast.seen]
    /\ UNCHANGED <<fExp, fHist, fOut, notFields>>

DoRead ==
    /\ fRd.built
    /\ fLast.err # "panic"
    /\ \E p \in ReadBuffers :
          LET r    == Read(TheReader, p)
              got  == SubSeq(r.p, Len(p) - fRd.exp.extractors[fRd.field + 1].dstLen + 1,
                             Len(p))
          IN  /\ fRd' = [built |-> TRUE, exp |-> r.r.exp, field |-> r.r.field,
                         data |-> r.r.data]
              /\ fLast' = [op |-> "Read", before |-> Before, arg |-> p, out |-> r.p,
                           n |-> r.n, err |-> r.err,
                           shortAt |-> IF r.err = "ErrShortBuffer" THEN fRd.field ELSE -1,
                           afterShort |-> fLast.shortAt,
                           reads |-> IF r.err = "nil" THEN fLast.reads + 1 ELSE fLast.reads,
                           seen |-> IF r.err = "nil" /\ fRd.field >= Len(fLast.seen)
                                    THEN Append(fLast.seen, got) ELSE fLast.seen]
    /\ UNCHANGED <<fExp, fHist, fOut, notFields>>

NextFields ==
    \/ DoNewBitExploder
    \/ DoSetWidths
    \/ DoExplode
    \/ DoNewBitReader
    \/ DoReset
    \/ DoSetData
    \/ DoRead

SpecFields == InitFields /\ [][NextFields]_vars

(***************************************************************************)
(* Claims about the BitReader and the BitExploder.                         *)
(***************************************************************************)
\* the extractor of field k (0-based) of the reader's exploder
FieldAt(k) == fRd.exp.extractors[k + 1]

\* the last ByteLength bytes of the buffer the last Read filled
ReadTail(k) ==
    SubSeq(fLast.out, Len(fLast.out) - ByteLength(FieldAt(k)) + 1, Len(fLast.out))

\* C11: a Read with a buffer shorter than the current field returns
\* (0, ErrShortBuffer) and leaves the cursor, the data and the caller's buffer
\* as they were; the Read that follows it with a large-enough buffer succeeds
\* and delivers that same field.
C11_ShortBufferRetry ==
    /\ (/\ fLast.op = "Read"
        /\ fLast.before.field < NumFields(fRd.exp)
        /\ Len(fLast.arg) < ByteLength(FieldAt(fLast.before.field))) =>
          /\ fLast.n = 0
          /\ fLast.err = "ErrShortBuffer"
          /\ fRd.field = fLast.before.field
          /\ fRd.data = fLast.before.data
          /\ fLast.out = fLast.arg
    /\ (/\ fLast.op = "Read"
        /\ fLast.afterShort # -1
        /\ Len(fLast.arg) >= ByteLength(FieldAt(fLast.afterShort))) =>
          /\ fLast.err = "nil"
          /\ fLast.n = Len(fLast.arg)
          /\ fLast.before.field = fLast.afterShort
          /\ fRd.field = fLast.afterShort + 1
          /\ ReadTail(fLast.afterShort) = Extract(FieldAt(fLast.afterShort), fRd.data)

\* reachable: the second field read into a three-byte buffer right after a
\* Read of it with too short a buffer
C11_Witness ==
    /\ fLast.op = "Read"
    /\ fLast.afterShort = 1
    /\ fLast.err = "nil"
    /\ Len(fLast.arg) = 3
    /\ fRd.field = 2

\* C12: the cursor stays in 0..NumFields; a Read at NumFields returns (0, EOF)
\* and keeps the cursor; a Read before NumFields with a large-enough buffer
\* succeeds, so that the successful Reads since construction, Reset or SetData
\* number the cursor; Reset sets the cursor to 0 and keeps the data, and a field
\* read again has the value it had the first time.
C12_ReadSequence ==
    fRd.built =>
        /\ 0 <= fRd.field
        /\ fRd.field <= NumFields(fRd.exp)
        /\ fLast.op = "Read" =>
              /\ fLast.before.field >= NumFields(fRd.exp) =>
                    /\ fLast.n = 0
                    /\ fLast.err = "EOF"
                    /\ fRd.field = fLast.before.field
              /\ (/\ fLast.before.field < NumFields(fRd.exp)
                  /\ Len(fLast.arg) >= ByteLength(FieldAt(fLast.before.field))) =>
                    /\ fLast.err = "nil"
                    /\ fRd.field = fLast.before.field + 1
                    /\ fLast.reads = fRd.field
                    /\ ReadTail(fLast.before.field) = fLast.seen[fLast.before.field + 1]
        /\ fLast.op = "Reset" =>
              /\ fRd.field = 0
              /\ fRd.data = fLast.before.data
        /\ fLast.op = "NewBitReader" => fRd.field = 0

C14_SetDataFrame ==
    fLast.op = "SetData" =>
        /\ fLast.err = "error" <=> Len(fLast.arg) * 8 < BitLength(fRd.exp)
        /\ fLast.err = "error" =>
              /\ fRd.data = fLast.before.data
              /\ fRd.field = fLast.before.field
        /\ fLast.err # "error" =>
              /\ fLast.err = "nil"
              /\ fRd.data = fLast.arg
              /\ fRd.field = 0

\* reachable: SetData accepted other data while the cursor was at field 2
C14_Witness ==
    /\ fLast.op = "SetData"
    /\ fLast.err = "nil"
    /\ fLast.before.field = 2
    /\ fLast.arg # fLast.before.data
    /\ fRd.field = 0

RECURSIVE SumWidths(_, _)
SumWidths(w, n) == IF n = 0 THEN 0 ELSE SumWidths(w, n - 1) + w[n]

PositiveWidths(w) == Len(w) >= 1 /\ \A i \in 1..Len(w) : w[i] > 0

\* C15: for a non-empty list of positive widths, Explode refuses a buffer of
\* fewer than ceil(sum(widths)/8) bytes and otherwise returns one buffer per
\* width, buffer i holding the source bits from sum(widths[0..i)) on, widths[i]
\* of them, right-aligned in ceil(widths[i]/8) bytes.
C15_ExplodeFields ==
    (fOut.status # "none" /\ PositiveWidths(fHist.widths)) =>
        LET w == fHist.widths
        IN  IF Len(fOut.data) < CeilDiv8(SumWidths(w, Len(w)))
            THEN fOut.status = "error"
            ELSE /\ fOut.status = "ok"
                 /\ Len(fOut.fields) = Len(w)
                 /\ \A i \in 1..Len(w) :
                       /\ Len(fOut.fields[i]) = CeilDiv8(w[i])
                       /\ \A p \in 0..(8 * CeilDiv8(w[i]) - 1) :
                             BitAt(fOut.fields[i], p)
                                 = RefOutBit(fOut.data, SumWidths(w, i - 1), w[i],
                                             CeilDiv8(w[i]), p)

\* reachable: <<12, 4, 8>> exploded from exactly three bytes
C15_Witness ==
    /\ fOut.status = "ok"
    /\ fHist.widths = <<12, 4, 8>>
    /\ fOut.data = <<15, 0, 195>>
    /\ fOut.fields = <<<<0, 240>>, <<0>>, <<195>>>>

RECURSIVE SumCeil8(_, _)
SumCeil8(w, n) == IF n = 0 THEN 0 ELSE SumCeil8(w, n - 1) + CeilDiv8(w[n])

\* C16: after NewBitExploder and any number of SetWidths calls that all
\* succeeded, ExplodedByteLength() is the sum of the fields' ByteLength(),
\* BitLength() is the sum of the widths, and Buffer() has NumFields slices of
\* the fields' byte lengths.
C16_ExploderLengths ==
    (ExploderInUse /\ fHist.allNil) =>
        /\ ExplodedByteLength(fExp) = SumByteLength(fExp, NumFields(fExp))
        /\ ExplodedByteLength(fExp) = SumCeil8(fHist.widths, Len(fHist.widths))
        /\ BitLength(fExp) = SumWidths(fHist.widths, Len(fHist.widths))
        /\ ~ExploderBufferPanics(fExp)
        /\ Len(ExploderBuffer(fExp)) = NumFields(fExp)
        /\ \A k \in 1..NumFields(fExp) :
              Len(ExploderBuffer(fExp)[k]) = ByteLength(fExp.extractors[k])

(***************************************************************************)
(* ASCII scenario: DecodeASCIIAt(data, offset).                            *)
(***************************************************************************)
MaxAsciiLen == 4
MaxAsciiLong == 10

\* longer buffers: a byte pattern, all ones, a single one bit at the end, and
\* zero bytes between ones
LongData ==
    UNION {{[k \in 1..n |-> (37 * k + 11) % 256],
            [k \in 1..n |-> 255],
            [k \in 1..n |-> IF k = n THEN 1 ELSE 0],
            [k \in 1..n |-> IF k % 3 = 0 THEN 0 ELSE 255]}
           : n \in (MaxAsciiLen + 1)..MaxAsciiLong}

notAscii == <<beVars, decVars, sgVars, fldVars, entVars, lateVars, gStr, gEsc, gBack>>

InitAscii ==
    /\ ExtractIdle
    /\ LateIdle
    /\ DecodeIdle
    /\ SgtinIdle
    /\ FieldsIdle
    /\ EscapeIdle
    /\ EntityIdle
    /\ tData \in SeqsUpTo(ByteVals, MaxAsciiLen) \cup LongData
    /\ tOffset \in -1..8
    /\ tDec = NoASCII

DoDecodeASCIIAt ==
    /\ tDec.status = "none"
    /\ tDec' = IF DecodeASCIIAtPanics(tData, tOffset)
               THEN [NoASCII EXCEPT !.status = "panic"]
               ELSE LET r == DecodeASCIIAt(tData, tOffset)
                    IN  [status |-> "ok", out |-> r.out, nullTerm |-> r.nullTerm,
                         extra |-> r.extra]
    /\ UNCHANGED <<tData, tOffset, notAscii>>

NextAscii == DoDecodeASCIIAt

SpecAscii == InitAscii /\ [][NextAscii]_vars

RefCharCount == (Len(tData) * 8 - tOffset) \div 7

RefNulls == {i \in 1..Len(tDec.out) : tDec.out[i] = 0}

\* C18: when DecodeASCIIAt yields at least one character, its second result is
\* the index of the first null of the text (the text's length without one) and
\* its third result tells whether a non-null character follows a null.
C18_NullIndexAndFlag ==
    (tDec.status = "ok" /\ Len(tDec.out) >= 1) =>
        /\ tDec.nullTerm =
              IF RefNulls = {} THEN Len(tDec.out)
              ELSE (CHOOSE i \in RefNulls : \A j \in RefNulls : i <= j) - 1
        /\ tDec.extra <=>
              \E i \in RefNulls : \E j \in (i + 1)..Len(tDec.out) : tDec.out[j] # 0

\* reachable: a text with two nulls, the first at index 2, and a non-null
\* character after them
C18_Witness ==
    /\ tDec.status = "ok"
    /\ tDec.nullTerm = 2
    /\ tDec.extra
    /\ Cardinality(RefNulls) >= 2

(***************************************************************************)
(* Escape scenario: EscapeGS1(s), then UnescapeGS1 of the result.          *)
(***************************************************************************)
MaxStrLen == 3

\* NUL, the reserved " # % & / < > ?, the characters 2 3 5 6 C E F of the
\* escape sequences, and a
EscapeChars == {0, 34, 35, 37, 38, 47, 60, 62, 63, 50, 51, 53, 54, 67, 69, 70, 97}

notEscape == <<beVars, decVars, sgVars, fldVars, entVars, lateVars, tData, tOffset, tDec>>

InitEscape ==
    /\ ExtractIdle
    /\ LateIdle
    /\ DecodeIdle
    /\ SgtinIdle
    /\ FieldsIdle
    /\ AsciiIdle
    /\ EntityIdle
    /\ gStr \in SeqsUpTo(EscapeChars, MaxStrLen)
    /\ gEsc = NoEscape
    /\ gBack = NoEscape

DoEscapeGS1 ==
    /\ ~gEsc.done
    /\ gEsc' = [done |-> TRUE, val |-> EscapeGS1(gStr)]
    /\ UNCHANGED <<gStr, gBack, notEscape>>

DoUnescapeGS1 ==
    /\ gEsc.done
    /\ ~gBack.done
    /\ gBack' = [done |-> TRUE, val |-> UnescapeGS1(gEsc.val)]
    /\ UNCHANGED <<gStr, gEsc, notEscape>>

NextEscape == DoEscapeGS1 \/ DoUnescapeGS1

SpecEscape == InitEscape /\ [][NextEscape]_vars

\* C19: for a string s without null byte, UnescapeGS1(EscapeGS1(s)) is s, each
\* reserved character of s being taken as a raw character; and escaping the
\* unescaped form of an escaped string gives that escaped string back.
C19_EscapeRoundTrip ==
    gBack.done =>
        /\ (\A i \in 1..Len(gStr) : gStr[i] # 0) => gBack.val = gStr
        /\ EscapeGS1(gBack.val) = gEsc.val

\* reachable: the literal text "%2F" escaped to "%252F" and back
C19_Witness ==
    /\ gBack.done
    /\ gStr = <<37, 50, 70>>
    /\ gEsc.val = <<37, 50, 53, 50, 70>>
    /\ gBack.val = gStr

(***************************************************************************)
(* Entity scenario: NewDecoder(authority, date, widths) and                *)
(* SetTaggingEntity(authority, date).                                      *)
(***************************************************************************)
MaxLabels == 2

\* a label of n lowercase letters
Label(n) == [k \in 1..n |-> 97 + (k % 26)]

\* the labels of the given lengths joined by "."
RECURSIVE JoinLabels(_, _)
JoinLabels(lens, i) ==
    IF i > Len(lens) THEN <<>>
    ELSE IF i = Len(lens) THEN Label(lens[i])
    ELSE Label(lens[i]) \o <<46>> \o JoinLabels(lens, i + 1)

LabelLengths == {1, 62, 63, 64}

LabelLists ==
    (SeqsUpTo(LabelLengths, MaxLabels) \ {<<>>})
    \cup {<<63, 63, 63, 63>>, <<63, 63, 63, 64>>, <<63, 63, 63, 63, 1>>,
          <<127, 127>>, <<255>>, <<256>>}

\* "", "A", "a_b", "1a", "-a", "a.", "a..b", ".a", "a-", "a.-1", "a.b-c.d9",
\* "ab.Cd"
OddAuthorities ==
    {<<>>, <<65>>, <<97, 95, 98>>, <<49, 97>>, <<45, 97>>, <<97, 46>>,
     <<97, 46, 46, 98>>, <<46, 97>>, <<97, 45>>, <<97, 46, 45, 49>>,
     <<97, 46, 98, 45, 99, 46, 100, 57>>, <<97, 98, 46, 67, 100>>}

Authorities == {JoinLabels(l, 1) : l \in LabelLists} \cup OddAuthorities

\* "", "2019-01-01", "2019-02-30", "2020-02-29", "2019-1-01", "20190101",
\* "2019-13-01"
Dates ==
    {<<>>,
     <<50, 48, 49, 57, 45, 48, 49, 45, 48, 49>>,
     <<50, 48, 49, 57, 45, 48, 50, 45, 51, 48>>,
     <<50, 48, 50, 48, 45, 48, 50, 45, 50, 57>>,
     <<50, 48, 49, 57, 45, 49, 45, 48, 49>>,
     <<50, 48, 49, 57, 48, 49, 48, 49>>,
     <<50, 48, 49, 57, 45, 49, 51, 45, 48, 49>>}

DecoderWidths == {<<>>, <<8>>, <<3, 5>>}

notEntity == <<beVars, decVars, sgVars, fldVars, txtVars, lateVars>>

InitEntity ==
    /\ ExtractIdle
    /\ LateIdle
    /\ DecodeIdle
    /\ SgtinIdle
    /\ FieldsIdle
    /\ AsciiIdle
    /\ EscapeIdle
    /\ nAuth \in Authorities
    /\ nDate \in Dates
    /\ nDec = ZeroDecoder
    /\ nErr = "none"

DoNewDecoder ==
    /\ nErr = "none"
    /\ \E widths \in DecoderWidths :
          LET r == NewDecoder(nAuth, nDate, widths)
          IN  /\ nDec' = r.dec
              /\ nErr' = r.err
    /\ UNCHANGED <<nAuth, nDate, notEntity>>

\* on the zero Decoder, or on the Decoder NewDecoder returned without error
DoSetTaggingEntity ==
    /\ nErr = "none" \/ (nErr = "nil" /\ nDec.exp # ZeroExploder)
    /\ LET r == SetTaggingEntity(nDec, nAuth, nDate)
       IN  /\ nDec' = r.dec
           /\ nErr' = r.err
    /\ UNCHANGED <<nAuth, nDate, notEntity>>

NextEntity == DoNewDecoder \/ DoSetTaggingEntity

SpecEntity == InitEntity /\ [][NextEntity]_vars

\* no 64 consecutive characters of str without a "."
LabelsWithin(str, n) ==
    \A i \in 1..(Len(str) - n) : \E j \in i..(i + n) : str[j] = 46

\* C20: SetTaggingEntity and NewDecoder accept an authority only if it uses
\* just lowercase letters, digits, "." and "-", has at most 255 characters and
\* every dot-separated label has at most 63 characters.
C20_AuthorityAccepted ==
    nErr = "nil" =>
        /\ \A i \in 1..Len(nAuth) : nAuth[i] \in AuthorityClass \cup {46}
        /\ Len(nAuth) <= 255
        /\ LabelsWithin(nAuth, 63)

(***************************************************************************)
(* The indicator DecodeSGTIN returns (decoding scenario).                  *)
(***************************************************************************)
C23_DigitOf(r) == r.status = "ok" => (0 <= r.sgtin.indicator /\ r.sgtin.indicator <= 9)

\* C23 as stated: for every input DecodeSGTIN accepts, the decoded indicator
\* is a single digit, 0 <= indicator <= 9.
C23_IndicatorSingleDigit == C23_DigitOf(rA) /\ C23_DigitOf(rB)

C23_RangeOf(r, buf) ==
    r.status = "ok" =>
        LET p == RefPartition(buf)
            w == IirWidth[p + 1]
        IN  /\ r.sgtin.indicator = RefIIR(buf) \div Pow(10, p)
            /\ 0 <= r.sgtin.indicator
            /\ r.sgtin.indicator <= (Pow(2, w) - 1) \div Pow(10, p)
            /\ r.sgtin.indicator <= 16
            /\ r.sgtin.indicator <= 9 <=> RefIIR(buf) < Pow(10, p + 1)
            /\ r.sgtin.indicator > 9 => ValidateRanges(r.sgtin) = "error"

\* C23 (amended): for every input DecodeSGTIN accepts, the decoded indicator
\* is iir div 10^partition, between 0 and (2^w - 1) div 10^partition <= 16 for
\* the w-bit indicator+item-reference field; it is a single digit exactly when
\* iir < 10^(partition+1), and ValidateRanges refuses every other one.
C23_IndicatorRange == C23_RangeOf(rA, dA) /\ C23_RangeOf(rB, dB)

\* reachable: an accepted SGTIN-96 of partition 6 whose 24 field bits are all
\* ones, decoded with indicator 16 and refused by ValidateRanges
C23_Witness ==
    /\ rA.status = "ok"
    /\ rA.sgtin.partition = 6
    /\ rA.sgtin.indicator = 16
    /\ ValidateRanges(rA.sgtin) = "error"

(***************************************************************************)
(* DecodeASCIIAt on fewer than 7 bits (ASCII scenario).                    *)
(***************************************************************************)
Undersized == tOffset \in 0..7 /\ Len(tData) * 8 - tOffset < 7

MaxCharsetLen == 3

\* NUL, space, ! # - A a, DEL, 0x80, 0xFF
CharsetChars == {0, 32, 33, 35, 45, 65, 97, 127, 128, 255}

notCharset == <<beVars, decVars, sgVars, fldVars, txtVars, entVars,
                tagVars, poolVars, bndVars>>

InitCharset ==
    /\ ExtractIdle
    /\ DecodeIdle
    /\ SgtinIdle
    /\ FieldsIdle
    /\ AsciiIdle
    /\ EscapeIdle
    /\ EntityIdle
    /\ TagIdle
    /\ PoolIdle
    /\ BoundsIdle
    /\ cStr \in SeqsUpTo(CharsetChars, MaxCharsetLen)
    /\ cAI = "none"
    /\ cCP = "none"

DoIsGS1AIEncodable ==
    /\ cAI = "none"
    /\ cAI' = IsGS1AIEncodable(cStr)
    /\ UNCHANGED <<cStr, cCP, notCharset>>

DoIsGS1CompPartEncodable ==
    /\ cCP = "none"
    /\ cCP' = IsGS1CompPartEncodable(cStr)
    /\ UNCHANGED <<cStr, cAI, notCharset>>

NextCharset == DoIsGS1AIEncodable \/ DoIsGS1CompPartEncodable

SpecCharset == InitCharset /\ [][NextCharset]_vars

\* C25 as stated: every string accepted by IsGS1CompPartEncodable is also
\* accepted by IsGS1AIEncodable.
C25_SubsetAsStated == (cCP = "true" /\ cAI # "none") => cAI = "true"

\* C25 (amended): a string accepted by IsGS1CompPartEncodable is accepted by
\* IsGS1AIEncodable exactly when it holds no "#": the Component/Part set
\* without "#" is a subset of the AI set, and "#" belongs to the first only.
C25_SubsetButHash ==
    (cCP = "true" /\ cAI # "none") =>
        /\ cAI \in {"true", "false"}
        /\ cAI = "true" <=> \A i \in 1..Len(cStr) : cStr[i] # 35

\* reachable: "-A" and a null accepted by both checks
C25_Witness ==
    /\ cStr = <<45, 65, 0>>
    /\ cCP = "true"
    /\ cAI = "true"

RefInSet(str, set) ==
    /\ \A i \in 1..Len(str) : str[i] \in set \cup {0}
    /\ \A i \in 1..Len(str) : str[i] = 0 => \A j \in i..Len(str) : str[j] = 0

\* C28: IsGS1AIEncodable and IsGS1CompPartEncodable return a boolean for
\* every byte string, with no out-of-range table access: false for a string
\* with a byte outside the respective set, DEL and bytes above 127 included.
C28_BooleanResults ==
    /\ cAI # "none" => cAI = (IF RefInSet(cStr, gs1AICharSet) THEN "true" ELSE "false")
    /\ cCP # "none" => cCP = (IF RefInSet(cStr, gs1AICPCharSet) THEN "true" ELSE "false")

(***************************************************************************)
(* A SetWidths that returns an error (fields scenario).                    *)
(***************************************************************************)
\* C30: when SetWidths returns an error the exploder is left as it was before
\* the call: the same fields, the same BitLength() and the same
\* ExplodedByteLength(), and it explodes data exactly as before.
C30_FailedSetWidthsFrame ==
    (fHist.calls >= 2 /\ fHist.err = "error") =>
        /\ fExp.extractors = fHist.prev.extractors
        /\ BitLength(fExp) = BitLength(fHist.prev)
        /\ ExplodedByteLength(fExp) = ExplodedByteLength(fHist.prev)
        /\ fOut.status # "none" =>
              LET r == Explode(fHist.prev, fOut.data)
              IN  fOut.status = r.status /\ fOut.fields = r.fields

(***************************************************************************)
(* Bounds scenario: New(start, len), then SetBounds(start, len) on the     *)
(* extractor, with ints of 64 bits.                                        *)
(***************************************************************************)
\* 1<<62
TwoTo62 == WLit(<<4, 6, 1, 1, 6, 8, 6, 0, 1, 8, 4, 2, 7, 3, 8, 7, 9, 0, 4>>)

StartValues ==
    {SInt(n) : n \in -1..8}
    \cup {SPos(MaxInt64), SPos(WSub(MaxInt64, <<1>>)), SPos(WSub(MaxInt64, <<8>>)),
          SPos(TwoTo62)}

LenValues ==
    {SInt(n) : n \in -1..9}
    \cup {SInt(16), SInt(17), SPos(MaxInt64), SPos(WSub(MaxInt64, <<7>>)), SPos(TwoTo62)}

notBounds == <<beVars, decVars, sgVars, fldVars, txtVars, entVars,
               chrVars, tagVars, poolVars>>

InitBounds ==
    /\ ExtractIdle
    /\ DecodeIdle
    /\ SgtinIdle
    /\ FieldsIdle
    /\ AsciiIdle
    /\ EscapeIdle
    /\ EntityIdle
    /\ CharsetIdle
    /\ TagIdle
    /\ PoolIdle
    /\ BoundsIdle

DoNew64 ==
    /\ vRes.status = "none"
    /\ \E start \in StartValues, len \in LenValues :
          LET r == New64(start, len)
          IN  /\ vStart' = start
              /\ vLen' = len
              /\ vBE' = r.be
              /\ vRes' = [status |-> IF r.status = "ok" THEN "new" ELSE "new-panic",
                          before |-> vBE]
    /\ UNCHANGED notBounds

DoSetBounds ==
    /\ vRes.status = "new"
    /\ \E start \in StartValues, len \in LenValues :
          LET r == SetBounds64(vBE, start, len)
          IN  /\ vStart' = start
              /\ vLen' = len
              /\ vBE' = r.be
              /\ vRes' = [status |-> r.status, before |-> vBE]
    /\ UNCHANGED notBounds

NextBounds == DoNew64 \/ DoSetBounds

SpecBounds == InitBounds /\ [][NextBounds]_vars

\* start >= 0, length >= 1 and start+length at most the largest int
RefLegalBounds ==
    /\ ~vStart.neg
    /\ ~vLen.neg
    /\ vLen.mag # <<>>
    /\ WCmp(WAdd(vStart.mag, vLen.mag), MaxInt64) <= 0

\* C27: for start >= 0 and length >= 1 with start+length not overflowing the
\* extractor built by New/SetBounds has destLength > 0 and rshift, lshift in
\* 0..8; for start < 0, length < 1 or an overflowing start+length the call is
\* refused with no field of the extractor changed.  Where the ints are small
\* the fields are those of SetBounds.
C27_BoundsInvariant ==
    vRes.status # "none" =>
        IF RefLegalBounds
        THEN /\ vRes.status \in {"new", "ok"}
             /\ vBE.dstLen # <<>>
             /\ vBE.rshift \in 0..8
             /\ vBE.lshift \in 0..8
             /\ vBE.rshift + vBE.lshift = 8
             /\ (Len(vStart.mag) <= 2 /\ Len(vLen.mag) <= 2) =>
                   LET ex == SetBounds(WToInt(vStart.mag), WToInt(vLen.mag))
                   IN  /\ ~SetBoundsPanics(WToInt(vStart.mag), WToInt(vLen.mag))
                       /\ WToInt(vBE.bitStart) = ex.bitStart
                       /\ WToInt(vBE.byteStart) = ex.byteStart
                       /\ WToInt(vBE.srcLen) = ex.srcLen
                       /\ WToInt(vBE.dstLen) = ex.dstLen
                       /\ vBE.bias = ex.bias
                       /\ vBE.rshift = ex.rshift
                       /\ vBE.lshift = ex.lshift
                       /\ vBE.mask = ex.mask
        ELSE /\ vRes.status \in {"new-panic", "panic"}
             /\ vBE = vRes.before

\* reachable: an extractor of bits [7, 16) refused a SetBounds whose
\* start+length overflows, and kept its fields
C27_Witness ==
    /\ vRes.status = "panic"
    /\ ~vStart.neg /\ ~vLen.neg /\ vLen.mag # <<>>
    /\ vBE = vRes.before
    /\ vBE.bitStart = <<7>>
    /\ vBE.dstLen = <<2>>

(***************************************************************************)
(* Pool scenario: concurrent ExtractUInt64 calls, each one a sequence of   *)
(* steps Get, PutUint64(buff, 0), ExtractTo, Uint64, deferred Put.         *)
(***************************************************************************)
MaxCalls == 2

Calls == 1..MaxCalls

\* extractors of 8 bits, of 12 bits across a byte boundary, and of 9 bytes
PoolExtractors == {New(0, 8), New(4, 12), New(3, 70)}

\* sources; the empty one is too short for every extractor
PoolSources == {<<165, 90>>, <<255, 15>>, <<>>}

NoUse == [pc |-> "idle", be |-> ZeroBE, src |-> <<>>, buf |-> 0, val |-> <<>>]

notPool == <<beVars, decVars, sgVars, fldVars, txtVars, entVars,
             chrVars, tagVars, bndVars>>

InitPool ==
    /\ ExtractIdle
    /\ DecodeIdle
    /\ SgtinIdle
    /\ FieldsIdle
    /\ AsciiIdle
    /\ EscapeIdle
    /\ EntityIdle
    /\ CharsetIdle
    /\ TagIdle
    /\ BoundsIdle
    /\ pPool = NoPool
    /\ pCalls = [c \in Calls |-> NoUse]

\* the call c moves on with the given fields
CallStep(c, pc, buf, val) ==
    [k \in Calls |->
        IF k = c THEN [pc |-> pc, be |-> pCalls[c].be, src |-> pCalls[c].src,
                       buf |-> buf, val |-> val]
        ELSE pCalls[k]]

\* be.ExtractUInt64(src) is called
CallEnter(c) ==
    /\ pCalls[c].pc = "idle"
    /\ \E ex \in PoolExtractors, src \in PoolSources :
          pCalls' = [k \in Calls |->
                        IF k = c THEN [pc |-> "get", be |-> ex, src |-> src,
                                       buf |-> 0, val |-> <<>>]
                        ELSE pCalls[k]]
    /\ UNCHANGED <<pPool, notPool>>

\* buff := bufferPool.Get(): a buffer of the pool
CallGetPooled(c) ==
    /\ pCalls[c].pc = "get"
    /\ \E id \in pPool.free :
          /\ pPool' = PoolTake(pPool, id)
          /\ pCalls' = CallStep(c, "zero", id, <<>>)
    /\ UNCHANGED notPool

\* buff := bufferPool.Get(): a fresh buffer from New
CallGetNew(c) ==
    /\ pCalls[c].pc = "get"
    /\ pPool' = PoolNew(pPool)
    /\ pCalls' = CallStep(c, "zero", Len(pPool.bufs) + 1, <<>>)
    /\ UNCHANGED notPool

\* binary.BigEndian.PutUint64(buff, 0)
CallZero(c) ==
    /\ pCalls[c].pc = "zero"
    /\ pPool' = PoolWrite(pPool, pCalls[c].buf, [i \in 1..8 |-> 0])
    /\ pCalls' = CallStep(c, "extract", pCalls[c].buf, <<>>)
    /\ UNCHANGED notPool

\* be.ExtractTo(buff[8-be.dstLen:], src), or its panic
CallExtractTo(c) ==
    /\ pCalls[c].pc = "extract"
    /\ LET u    == pCalls[c]
           buff == pPool.bufs[u.buf]
       IN  IF u.be.dstLen > 8
              \/ ExtractToPanics(u.be, SubSeq(buff, 8 - u.be.dstLen + 1, 8), u.src)
           THEN /\ pPool' = pPool
                /\ pCalls' = CallStep(c, "unwind", u.buf, <<>>)
           ELSE /\ pPool' = PoolWrite(pPool, u.buf, ScratchExtract(u.be, buff, u.src))
                /\ pCalls' = CallStep(c, "read", u.buf, <<>>)
    /\ UNCHANGED notPool

\* the result binary.BigEndian.Uint64(buff) is evaluated
CallUint64(c) ==
    /\ pCalls[c].pc = "read"
    /\ pCalls' = CallStep(c, "put", pCalls[c].buf, Uint64(pPool.bufs[pCalls[c].buf]))
    /\ UNCHANGED <<pPool, notPool>>

\* the deferred bufferPool.Put(buff), on return and on a panic
CallPut(c) ==
    /\ pCalls[c].pc \in {"put", "unwind"}
    /\ pPool' = PoolPut(pPool, pCalls[c].buf)
    /\ pCalls' = CallStep(c, IF pCalls[c].pc = "put" THEN "returned" ELSE "panicked",
                          pCalls[c].buf, pCalls[c].val)
    /\ UNCHANGED notPool

NextPool ==
    \E c \in Calls :
        \/ CallEnter(c)
        \/ CallGetPooled(c)
        \/ CallGetNew(c)
        \/ CallZero(c)
        \/ CallExtractTo(c)
        \/ CallUint64(c)
        \/ CallPut(c)

SpecPool == InitPool /\ [][NextPool]_vars

\* the call holds its buffer: after Get, before the deferred Put
Holding(c) == pCalls[c].pc \in {"zero", "extract", "read", "put", "unwind"}

\* C26: concurrent ExtractUInt64 calls each return the value they return when
\* run alone (and panic when they panic alone): a pooled scratch buffer is held
\* by at most one call between checkout and return, a held buffer is not in
\* the pool, and the value is taken from a buffer zeroed by the call itself.
C26_PooledScratchExclusive ==
    /\ \A c \in Calls :
          /\ pCalls[c].pc = "returned" =>
                /\ ~ExtractUInt64Panics(pCalls[c].be, pCalls[c].src)
                /\ pCalls[c].val = ExtractUInt64(pCalls[c].be, pCalls[c].src)
          /\ pCalls[c].pc = "panicked" =>
                ExtractUInt64Panics(pCalls[c].be, pCalls[c].src)
          /\ Holding(c) => pCalls[c].buf \notin pPool.free
          /\ pCalls[c].pc \in {"read", "put"} =>
                pPool.bufs[pCalls[c].buf]
                    = ScratchExtract(pCalls[c].be, [i \in 1..8 |-> 0], pCalls[c].src)
    /\ \A c, d \in Calls :
          (c # d /\ Holding(c) /\ Holding(d)) => pCalls[c].buf # pCalls[d].buf

\* reachable: two calls have returned different non-zero values through the
\* same scratch buffer
C26_Witness ==
    /\ pCalls[1].pc = "returned"
    /\ pCalls[2].pc = "returned"
    /\ pCalls[1].buf = pCalls[2].buf
    /\ pCalls[1].val # pCalls[2].val
    /\ pCalls[1].val # <<>>
    /\ pCalls[2].val # <<>>
    /\ Len(pCalls[1].val) < Len(pCalls[2].val)

(***************************************************************************)
(* Tag scenario: NewDecoder, at most MaxTagSetWidths calls of SetWidths on *)
(* the Decoder, then either Decode(data) followed by Fields(bt.URI()), or  *)
(* Fields on a URI written by hand, then Field(uri, idx).                  *)
(***************************************************************************)
MaxTagSetWidths == 1

\* "test.com" and "2019-01-01"
TagAuthority == <<116, 101, 115, 116, 46, 99, 111, 109>>

TagDate == <<50, 48, 49, 57, 45, 48, 49, 45, 48, 49>>

TagWidths == {<<8, 48, 40>>, <<8>>, <<4, 12>>, <<72, 8>>, <<64, 3>>}

TagReWidths == {<<8, 8>>, <<8, 0>>, <<0>>, <<>>}

\* 0F00000000000C00000014D2 and buffers for the other layouts
TagData ==
    {<<15, 0, 0, 0, 0, 0, 12, 0, 0, 0, 20, 210>>,
     <<255, 255, 255, 255, 255, 255, 255, 255, 255, 1>>,
     <<128, 0, 0, 0, 0, 0, 0, 1, 160>>,
     <<255, 90>>, <<165>>, <<>>}

\* "7", "15", "" and "1a"
FieldTexts == {<<55>>, <<49, 53>>, <<>>, <<49, 97>>}

\* URIs of one field fewer to one field more than the decoder has, behind the
\* decoder's prefix and ":" or behind the prefix and ";"
TagUris(btd) ==
    LET n == NumFields(btd.exp)
    IN  {btd.uriPrefix \o sep \o JoinDotsFrom(l, 1) :
            l \in {t \in SeqsUpTo(FieldTexts, n + 1) : Len(t) >= n - 1},
            sep \in {<<58>>, <<59>>}}

notTag == <<beVars, decVars, sgVars, fldVars, txtVars, entVars,
            chrVars, poolVars, bndVars>>

InitTag ==
    /\ ExtractIdle
    /\ DecodeIdle
    /\ SgtinIdle
    /\ FieldsIdle
    /\ AsciiIdle
    /\ EscapeIdle
    /\ EntityIdle
    /\ CharsetIdle
    /\ PoolIdle
    /\ BoundsIdle
    /\ TagIdle

DoTagNewDecoder ==
    /\ bDec = ZeroDecoder
    /\ \E w \in TagWidths :
          LET r == NewDecoder(TagAuthority, TagDate, w)
          IN  /\ r.err = "nil"
              /\ bDec' = r.dec
              /\ bWidths' = w
    /\ UNCHANGED <<bCalls, bData, bTag, bUri, bIdx, bFields, bField, notTag>>

\* the promoted SetWidths of the embedded BitExploder; bWidths follows the
\* layout whenever the exploder changed
DoTagSetWidths ==
    /\ bDec # ZeroDecoder
    /\ bCalls < MaxTagSetWidths
    /\ bTag.status = "none"
    /\ bFields.status = "none"
    /\ \E w \in TagWidths \cup TagReWidths :
          LET r == SetWidths(bDec.exp, w)
          IN  /\ bDec' = [uriPrefix |-> bDec.uriPrefix, exp |-> r.exp]
              /\ bWidths' = IF r.exp = bDec.exp THEN bWidths ELSE w
    /\ bCalls' = bCalls + 1
    /\ UNCHANGED <<bData, bTag, bUri, bIdx, bFields, bField, notTag>>

DoDecode ==
    /\ bDec # ZeroDecoder
    /\ bTag.status = "none"
    /\ bFields.status = "none"
    /\ \E data \in TagData :
          /\ bData' = data
          /\ bTag' = Decode(bDec, data)
    /\ UNCHANGED <<bDec, bWidths, bCalls, bUri, bIdx, bFields, bField, notTag>>

\* Fields(bt.URI()) for a decoded tag, Fields of a URI written by hand when
\* nothing was decoded
DoFields ==
    /\ bDec # ZeroDecoder
    /\ bTag.status \in {"none", "ok"}
    /\ bFields.status = "none"
    /\ \E uri \in (IF bTag.status = "ok" THEN {BitTagURI(bTag)} ELSE TagUris(bDec)) :
          /\ bUri' = uri
          /\ bFields' = Fields(bDec, uri)
    /\ UNCHANGED <<bDec, bWidths, bCalls, bData, bTag, bIdx, bField, notTag>>

DoField ==
    /\ bFields.status # "none"
    /\ bField.status = "none"
    /\ \E idx \in (-1)..(NumFields(bDec.exp) + 1) :
          /\ bIdx' = idx
          /\ bField' = Field(bDec, bUri, idx)
    /\ UNCHANGED <<bDec, bWidths, bCalls, bData, bTag, bUri, bFields, notTag>>

NextTag ==
    \/ DoTagNewDecoder
    \/ DoTagSetWidths
    \/ DoDecode
    \/ DoFields
    \/ DoField

SpecTag == InitTag /\ [][NextTag]_vars

\* the value of the bits [start, start+len) of buf, 24 bits at a time:
\* the bits before the last 24, times 2^12 twice, plus the last 24
RECURSIVE RefWideLong(_, _, _)
RefWideLong(buf, start, len) ==
    IF len <= 24 THEN RefWide(buf, start, len)
    ELSE LET hi == RefWideLong(buf, start, len - 24)
             lo == RefWide(buf, start + len - 24, 24)
         IN  WAdd(WMulAdd(WMulAdd(hi, 4096, 0), 4096, 0), lo)

\* the base-10 text of the bits [start, start+width) of field i of bData
RefDecimal(i) ==
    DigitChars(RefWideLong(bData, SumWidths(bWidths, i - 1), bWidths[i]))

RefDecimals == [i \in 1..Len(bWidths) |-> RefDecimal(i)]

\* C21: for every buffer Decode accepts, bt.URI() is the prefix, ":" and the
\* fields in base 10 joined by "."; fields of at most 8 bytes are 64-bit
\* integers and longer ones arbitrary-precision integers; Fields(bt.URI())
\* succeeds with exactly NumFields strings, string i the base-10 text of
\* field i; Field(bt.URI(), i) returns the same string for i in [0, NumFields)
C21_DecodeUriRoundTrip ==
    bTag.status = "ok" =>
        /\ Len(bTag.fields) = Len(bWidths)
        /\ Len(bWidths) = NumFields(bDec.exp)
        /\ \A i \in 1..Len(bWidths) : bTag.fields[i].big <=> bWidths[i] > 64
        /\ BitTagURI(bTag) = bDec.uriPrefix \o <<58>> \o JoinDotsFrom(RefDecimals, 1)
        /\ bFields.status # "none" =>
              /\ bUri = BitTagURI(bTag)
              /\ bFields.status = "ok"
              /\ bFields.val = RefDecimals
        /\ (bField.status # "none" /\ bIdx \in 0..(Len(bWidths) - 1)) =>
              /\ bField.status = "ok"
              /\ bField.val = <<RefDecimal(bIdx + 1)>>

\* widths [8,48,40] on 0F00000000000C00000014D2 under test.com / 2019-01-01:
\* the URI is tag:test.com,2019-01-01:15.12.5330 and Field(URI, 2) is "5330"
C21_Witness ==
    /\ bWidths = <<8, 48, 40>>
    /\ bData = <<15, 0, 0, 0, 0, 0, 12, 0, 0, 0, 20, 210>>
    /\ bTag.status = "ok"
    /\ bUri = <<116, 97, 103, 58>> \o TagAuthority \o <<44>> \o TagDate
                 \o <<58, 49, 53, 46, 49, 50, 46, 53, 51, 51, 48>>
    /\ bFields.status = "ok"
    /\ Len(bFields.val) = 3
    /\ bIdx = 2
    /\ bField = [status |-> "ok", val |-> <<<<53, 51, 51, 48>>>>]

\* the "."-separated pieces of the rest of a URI, all of them
RECURSIVE RefSplitAll(_)
RefSplitAll(s) ==
    IF IndexDot(s, 1) = 0 THEN <<s>>
    ELSE <<SubSeq(s, 1, IndexDot(s, 1) - 1)>>
             \o RefSplitAll(SubSeq(s, IndexDot(s, 1) + 1, Len(s)))

RefUriFields ==
    RefSplitAll(SubSeq(bUri, Len(bDec.uriPrefix) + 2, Len(bUri)))

RefAllDigits(strs) ==
    \A i \in 1..Len(strs) :
        Len(strs[i]) >= 1 /\ \A k \in 1..Len(strs[i]) : strs[i][k] \in 48..57

\* C22: Fields accepts a URI whose prefix is the decoder's, that has at least
\* as many "."-separated fields as the decoder, all of them of digits 0-9
\* only; a URI with more all-digit fields than the decoder has is accepted
C22_AcceptsAtLeastAsMany ==
    (/\ bFields.status # "none"
     /\ HasPrefix(bUri, bDec.uriPrefix \o <<58>>)
     /\ Len(RefUriFields) >= NumFields(bDec.exp)
     /\ RefAllDigits(RefUriFields))
        => bFields.status = "ok"

\* C29: Field(URI, idx) returns the field at idx for idx in [0, NumFields) of
\* a valid URI and returns an error, without a panic, for every other idx,
\* idx = NumFields and negative idx included
C29_FieldIndexChecked ==
    (bField.status # "none" /\ bFields.status = "ok") =>
        IF bIdx \in 0..(NumFields(bDec.exp) - 1)
        THEN bField = [status |-> "ok", val |-> <<bFields.val[bIdx + 1]>>]
        ELSE bField.status = "error"

====
